---- MODULE Spec2Model ----
(***************************************************************************)
(* A model of the price aggregation and resilience layer of                *)
(* @cygnus-wealth/asset-valuator: the consensus reduction of               *)
(* DecentralizedAggregator, the sliding-window RateLimiter with its        *)
(* exponential backoff, and the aggregator's fetchPrice and                *)
(* fetchMultiplePrices paths over unreliable providers.                    *)
(*                                                                         *)
(* Numbers.  Prices are JavaScript doubles; the model draws them from a    *)
(* small set of integers and keeps a quotient as the exact fraction        *)
(* [num, den].  For these operands the double computation agrees with the  *)
(* exact one: sums of small integers are exact, and a ratio |p - m| / m    *)
(* that is not exactly 1/10 differs from 1/10 by far more than one ulp.    *)
(* consensusThreshold is drawn in quarters (q/4), which doubles represent  *)
(* exactly, so count * threshold is exact as well.                         *)
(***************************************************************************)
EXTENDS Integers, Sequences, FiniteSets, TLC

\* ------------------------------------------------------------------ bounds
\* Longest quote list handed to the consensus reduction in SpecConsensus.
MaxQuotes == 3

\* Quarters of consensusThreshold: q stands for the threshold q/4.
ThresholdQuarters == {1, 2, 3, 4}
\* The default threshold 0.5 (decentralized-aggregator.ts:49), in quarters.
DefaultThresholdQ == 2

\* Prices a provider may quote.  100/110 and 100/111 sit on the two sides of
\* the 10% band (10/110 <= 0.1, 11/111 <= 0.1, 10/100 <= 0.1, 11/100 > 0.1).
Prices == {10, 100, 101, 102, 110, 111, 1000}

\* ------------------------------------------------------- consensus (pure)
Abs(x) == IF x < 0 THEN -x ELSE x

\* A number kept as an exact fraction.
Frac(n, d) == [num |-> n, den |-> d]
FracEq(a, b) == a.num * b.den = b.num * a.den
FracLeq(a, b) == a.num * b.den <= b.num * a.den

RECURSIVE SeqSum(_)
SeqSum(s) == IF s = <<>> THEN 0 ELSE Head(s) + SeqSum(Tail(s))

RECURSIVE InsertAsc(_, _)
InsertAsc(x, s) ==
  IF s = <<>> THEN <<x>>
  ELSE IF x < Head(s) THEN <<x>> \o s
       ELSE <<Head(s)>> \o InsertAsc(x, Tail(s))

\* prices.map(p => p.price).sort((a, b) => a - b): ascending.
RECURSIVE SortedPrices(_)
SortedPrices(s) ==
  IF s = <<>> THEN <<>> ELSE InsertAsc(Head(s), SortedPrices(Tail(s)))

\* The index floor((length - 1) / 2): the lower middle on even counts.
MedianOfLowerMiddle(sorted) == sorted[((Len(sorted) - 1) \div 2) + 1]

\* sortedPrices[Math.floor(sortedPrices.length / 2)], the index 0-based.
MedianOf(sorted) == sorted[(Len(sorted) \div 2) + 1]

\* The band test with a strict comparison, < 0.1.
WithinBandStrict(price, median) ==
  IF median > 0 THEN 10 * Abs(price - median) < median
  ELSE median < 0

\* Math.abs(price - median) / median <= 0.1.  A zero median gives Infinity
\* or NaN, which fail the comparison; a negative one gives a quotient <= 0.
WithinBand(price, median) ==
  IF median > 0 THEN 10 * Abs(price - median) <= median
  ELSE median < 0

\* A filter that keeps every price.
Unfiltered(sorted) == sorted

\* The prices that survive the outlier filter, ascending.
Filtered(sorted) ==
  LET m == MedianOf(sorted)
      Keep(p) == WithinBand(p, m)
  IN  SelectSeq(sorted, Keep)

\* The fallback test with <=: falls back also when the survivors just meet
\* the threshold.
TooManyOutliersInclusive(nFiltered, nPrices, thrQ) == 4 * nFiltered <= nPrices * thrQ

\* filtered.length < prices.length * this.consensusThreshold, threshold thrQ/4.
TooManyOutliers(nFiltered, nPrices, thrQ) == 4 * nFiltered < nPrices * thrQ

\* The filtered mean without the fallback to the median.
ConsensusNoFallback(prices, thrQ) ==
  IF prices = <<>> THEN [kind |-> "throw", branch |-> "empty"]
  ELSE IF Len(prices) = 1
       THEN [kind |-> "value", branch |-> "single", price |-> Frac(prices[1], 1)]
       ELSE LET sorted == SortedPrices(prices)
                f == Filtered(sorted)
            IN  [kind |-> "value", branch |-> "mean", median |-> MedianOf(sorted),
                 price |-> Frac(SeqSum(f), IF f = <<>> THEN 1 ELSE Len(f))]

\* calculateConsensusPrice: its result, or that it throws, with the return
\* statement that produced it (branch) and the local median it computed.
CalculateConsensusPrice(prices, thrQ) ==
  IF prices = <<>> THEN [kind |-> "throw", branch |-> "empty"]
  ELSE IF Len(prices) = 1
       THEN [kind |-> "value", branch |-> "single", price |-> Frac(prices[1], 1)]
       ELSE LET sorted == SortedPrices(prices)
                median == MedianOf(sorted)
                filtered == Filtered(sorted)
            IN  IF TooManyOutliers(Len(filtered), Len(prices), thrQ)
                THEN [kind |-> "value", branch |-> "median", median |-> median,
                      price |-> Frac(median, 1)]
                ELSE [kind |-> "value", branch |-> "mean", median |-> median,
                      price |-> Frac(SeqSum(filtered), Len(filtered))]

\* ------------------------------------------------------------ rate limiter
\* Concurrent execute calls the model follows, and the last clock value.
NumCalls == 2
MaxTime == 5

CallIds == 1..NumCalls
\* Keys of execute: fetchPrice uses `${symbol}-${currency}`.
Keys == {"k1", "k2"}

\* RateLimiterOptions the limiter is constructed with, in time units of the
\* model: a ceiling of one or two requests per window of 4 with waits of 1
\* and 2, and the shape of the spec's exhaustion example (maxRetries = 1).
\* The constructor's `|| 1000` and `|| 3` defaults leave positive values as
\* given.
LimiterOptions ==
  { [maxRequests |-> 1, windowMs |-> 4, retryAfterMs |-> 1, maxRetries |-> 2],
    [maxRequests |-> 2, windowMs |-> 4, retryAfterMs |-> 1, maxRetries |-> 2],
    [maxRequests |-> 1, windowMs |-> 4, retryAfterMs |-> 2, maxRetries |-> 1] }

\* How the operation handed to execute settles.
OperationOutcomes == {"ok", "throttled", "error"}

RECURSIVE Pow2(_)
Pow2(n) == IF n <= 0 THEN 1 ELSE 2 * Pow2(n - 1)

\* backoffMs = this.options.retryAfterMs * Math.pow(2, retries).
BackoffMs(retryAfterMs, retries) == retryAfterMs * Pow2(retries)

\* this.requests.filter(time => now - time < this.options.windowMs).
PruneRequests(reqs, now, windowMs) ==
  LET Recent(time) == now - time < windowMs IN SelectSeq(reqs, Recent)

\* A ceiling test that admits one request too many.
AtLimitOffByOne(reqs, maxRequests) == Len(reqs) > maxRequests

\* this.requests.length >= this.options.maxRequests.
AtLimit(reqs, maxRequests) == Len(reqs) >= maxRequests

\* A read that never finds a counter.
RetriesOfNone(rc, key) == 0

\* this.retryCount.get(key) || 0.
RetriesOf(rc, key) == IF key \in DOMAIN rc THEN rc[key] ELSE 0
\* this.retryCount.delete(key).
DeleteRetry(rc, key) == [k \in DOMAIN rc \ {key} |-> rc[k]]
\* A counter kept for the limiter as a whole: a set stores n for every key.
SetRetryOfAll(rc, key, n) == [k \in Keys |-> n]
\* this.retryCount.set(key, n).
SetRetry(rc, key, n) == [k \in DOMAIN rc \cup {key} |-> IF k = key THEN n ELSE rc[k]]

\* A ceiling on retries that allows one more.
RetriesExhaustedLate(retries, maxRetries) == retries > maxRetries

\* retries >= this.options.maxRetries.
RetriesExhausted(retries, maxRetries) == retries >= maxRetries

\* A timer that resolves at once.
TimerFiredEarly(now, wakeAt) == TRUE

\* setTimeout(resolve, ms): the sleeper resumes no earlier than ms after it
\* began to wait, and possibly later.
TimerFired(now, wakeAt) == now >= wakeAt

\* -------------------------------------------------------------- aggregator
\* The fetches the aggregator's caller makes in a run.
MaxFetches == 2

\* How long the caller waits between two fetches: not at all, or as long as
\* the cache's ttl.
CallerDelays == {0, 2}

\* Symbols a caller asks fetchPrice for: a lower-case ticker, and one whose
\* text contains "429".
Symbols == {"eth", "T429"}
\* The symbol lists handed to fetchMultiplePrices.
BatchRequests == {<<"BTC", "eth">>, <<"BTC">>}
\* Prices the providers quote in SpecAggregator.
ProviderPrices == {100, 110}

\* Prices the providers quote to fetchMultiplePrices in SpecAggregator.
BatchPrices == {100, 110}

\* A symbol left in the letter case it was given in.
AsGiven(symbol) == symbol

\* symbol.toUpperCase().
ToUpperCase(symbol) ==
  CASE symbol = "eth" -> "ETH"
    [] symbol = "btc" -> "BTC"
    [] symbol = "usd" -> "USD"
    [] symbol = "usdc" -> "USDC"
    [] OTHER -> symbol
\* s.toLowerCase().
ToLowerCase(s) ==
  CASE s = "USD" -> "usd"
    [] s = "EUR" -> "eur"
    [] s = "PYUSD" -> "pyusd"
    [] s = "USDC" -> "usdc"
    [] s = "BTC" -> "btc"
    [] OTHER -> s
\* message.includes('429'), for a message that ends with the symbol.
Includes429(symbol) == symbol = "T429"
\* `${symbol}-${currency}`, the currency being 'usd'.
CacheKey(symbol) == symbol \o "-usd"
RECURSIVE Join(_)
\* uncachedSymbols.join(',').
Join(symbols) ==
  IF symbols = <<>> THEN ""
  ELSE IF Len(symbols) = 1 THEN symbols[1]
       ELSE symbols[1] \o "," \o Join(Tail(symbols))
\* `batch-${uncachedSymbols.join(',')}-${currency}`.
BatchKey(symbols) == "batch-" \o Join(symbols) \o "-usd"

\* The aggregator as constructed: the provider list (its length), the
\* consensus threshold in quarters, and the cache's defaultTTL in time units
\* of the model.
AggregatorOptions ==
  { [providers |-> 2, thresholdQ |-> 2, ttl |-> 2],
    [providers |-> 2, thresholdQ |-> 4, ttl |-> 2] }
\* maxSize of the aggregator's EdgeCache.
CacheMaxSize == 500
\* The limiter the aggregator constructs: retryAfterMs 2000 (one time unit of
\* the model) and maxRetries 3 are fixed, maxRequests and windowMs come from
\* rateLimitOptions.
AggregatorLimiterOptions ==
  { [maxRequests |-> 1, windowMs |-> 4, retryAfterMs |-> 1, maxRetries |-> 3],
    [maxRequests |-> 2, windowMs |-> 4, retryAfterMs |-> 1, maxRetries |-> 3] }

\* The constructor arguments explored: the narrow window with either
\* threshold, the wide window with the default threshold.
AggregatorSetups ==
  {setup \in AggregatorLimiterOptions \X AggregatorOptions :
     setup[1].maxRequests = 1 \/ setup[2].thresholdQ = 2}

\* What a provider's fetchPrice does: resolve with a quote, reject, or reject
\* with a throttling error (HTTP 429).
PriceReplies ==
  {[kind |-> "quote", price |-> p] : p \in ProviderPrices}
    \cup {[kind |-> "fail", price |-> 0], [kind |-> "throttled", price |-> 0]}

RECURSIVE QuoteSelections(_, _)
\* The quote lists a provider can resolve with at the price level p: a quote
\* for each symbol of a subset of those asked, in the order asked, under the
\* upper-cased symbol.
QuoteSelections(symbols, p) ==
  IF symbols = <<>> THEN {<<>>}
  ELSE LET rest == QuoteSelections(Tail(symbols), p)
       IN  rest \cup
           {<<[symbol |-> ToUpperCase(Head(symbols)), price |-> p]>> \o r : r \in rest}

\* What a provider's fetchMultiplePrices does for the symbols asked: resolve
\* with the quotes of the symbols it could resolve, or reject.
BatchReplies(symbols) ==
  {[kind |-> "quotes", quotes |-> q] :
     q \in UNION {QuoteSelections(symbols, p) : p \in BatchPrices}}
    \cup {[kind |-> "fail", quotes |-> <<>>]}

\* The replies to any of the requests, and so to any part of one.
AnyBatchReply == UNION {BatchReplies(symbols) : symbols \in BatchRequests}

\* A try/catch that lets throttling rejections through.
CaughtUnlessThrottled(reply) == reply.kind # "throttled"

\* The try/catch around provider.fetchPrice catches every rejection.
Caught(reply) == TRUE

\* A batch loop without its try/catch.
BatchNotCaught(reply) == FALSE

\* The try/catch around provider.fetchMultiplePrices catches every rejection.
BatchCaught(reply) == TRUE

\* A test under which the loop never has quotes enough to stop.
EnoughNever(nResults, nProviders, thrQ) == FALSE

\* results.length >= Math.ceil(this.providers.length * this.consensusThreshold).
EnoughForConsensus(nResults, nProviders, thrQ) ==
  nResults >= (nProviders * thrQ + 3) \div 4

RECURSIVE PricesOf(_)
\* prices.map(p => p.price).
PricesOf(quotes) ==
  IF quotes = <<>> THEN <<>> ELSE <<Head(quotes).price>> \o PricesOf(Tail(quotes))

\* groupBySymbol: the quotes of each upper-cased symbol, the symbols in the
\* order of their first quote (a Map iterates in insertion order).
RECURSIVE GroupBySymbol(_, _)
GroupBySymbol(quotes, grouped) ==
  IF quotes = <<>> THEN grouped
  ELSE LET symbol == ToUpperCase(Head(quotes).symbol)
           at == {i \in DOMAIN grouped : grouped[i].symbol = symbol}
       IN  IF at = {}
           THEN GroupBySymbol(Tail(quotes),
                  Append(grouped, [symbol |-> symbol, prices |-> <<Head(quotes)>>]))
           ELSE LET i == CHOOSE j \in at : TRUE
                IN  GroupBySymbol(Tail(quotes),
                      [grouped EXCEPT ![i].prices = Append(@, Head(quotes))])

\* EdgeCache.get on the in-memory backend: the data of an entry younger than
\* its ttl; an expired entry is deleted.
CacheGet(store, key, now) ==
  LET at == {i \in DOMAIN store : store[i].key = key}
  IN  IF at = {} THEN [hit |-> <<>>, store |-> store]
      ELSE LET i == CHOOSE j \in at : TRUE
           IN  IF now - store[i].timestamp < store[i].ttl
               THEN [hit |-> <<store[i].data>>, store |-> store]
               ELSE [hit |-> <<>>,
                     store |-> SubSeq(store, 1, i - 1) \o SubSeq(store, i + 1, Len(store))]

\* A set that moves a key already present to the end of the insertion
\* order, as a recency-ordered store would.
CacheSetMovingToEnd(store, key, data, now, ttl, maxSize) ==
  LET entry == [key |-> key, data |-> data, timestamp |-> now, ttl |-> ttl]
      Other(e) == e.key # key
      put == Append(SelectSeq(store, Other), entry)
  IN  IF Len(put) > maxSize THEN Tail(put) ELSE put

\* EdgeCache.set on the in-memory backend: Map.set (a key already present
\* keeps its place), then the oldest insertion is evicted above maxSize.
CacheSet(store, key, data, now, ttl, maxSize) ==
  LET entry == [key |-> key, data |-> data, timestamp |-> now, ttl |-> ttl]
      at == {i \in DOMAIN store : store[i].key = key}
      put == IF at = {} THEN Append(store, entry)
             ELSE [store EXCEPT ![CHOOSE j \in at : TRUE] = entry]
  IN  IF Len(put) > maxSize THEN Tail(put) ELSE put

\* ------------------------------------------------------------------ state
VARIABLES
  cPrices,     \* SpecConsensus: the quote prices handed to the reduction
  cThreshold,  \* SpecConsensus: consensusThreshold, in quarters
  cResult,     \* SpecConsensus: kind "pending", or what the reduction returned
  clock,       \* Date.now()
  opts,        \* RateLimiter.options
  requests,    \* RateLimiter.requests: the retained timestamps, in push order
  retryCount,  \* RateLimiter.retryCount: key -> count, absent keys not in DOMAIN
  calls,       \* the execute calls: where each stands, and what it has done
  started,     \* history: the times, within the last windowMs, at which an
               \* operation was invoked
  agg,         \* DecentralizedAggregator: providers, consensusThreshold, ttl
  cache,       \* EdgeCache.memoryCache: the entries in insertion order
  fetches      \* how many fetches the aggregator's caller has made

consVars == <<cPrices, cThreshold, cResult>>
limVars == <<clock, opts, requests, retryCount, calls, started>>
aggVars == <<agg, cache, fetches>>

VARIABLES
  options,       \* EdgeCache.options: storage, maxSize, defaultTTL
  host,          \* what the host offers: hasLocalStorage(), hasIndexedDB();
                 \* and what the cache's user passes
  db,            \* EdgeCache.db: "none", "opening" (open request pending), "open"
  memoryCache,   \* EdgeCache.memoryCache: the entries in insertion order
  localStorage,  \* the host's localStorage: the cache_ items in insertion order
  objectStore,   \* the 'prices' object store of the database
  returned       \* how the last EdgeCache operation settled

VARIABLES
  facadeCache,   \* AssetValuator.cache: key -> {price, timestamp}
  cacheTimeout,  \* AssetValuator.cacheTimeout
  ops,           \* the getPrice and convert calls: where each stands, how it ended
  clearedKeys    \* the keys clearCache removed that have not been cached since

VARIABLES
  gecko          \* the CoinGeckoProvider call: its arguments, what axios.get
                 \* did, and how the call ended

cacheVars == <<options, host, db, memoryCache, localStorage, objectStore, returned>>
valVars == <<facadeCache, cacheTimeout, ops, clearedKeys>>
geckoVars == <<gecko>>
vars == <<consVars, limVars, aggVars, cacheVars, valVars, geckoVars>>

\* No call of the CoinGeckoProvider has been made.
NoGeckoCall ==
  [pc |-> "idle", op |-> "none", symbols |-> <<>>, currency |-> "none",
   response |-> [ok |-> FALSE, ids |-> {}], outcome |-> "none", result |-> <<>>]

\* A CoinGeckoProvider that is never called.
GeckoIdle == gecko = NoGeckoCall

\* A call that has not been made yet.  retries, wakeAt and why are the
\* locals of the frame that waits (cleared when the frame is left).  r0,
\* satWaits, invocations and sleptAt are history: the key's retry count when
\* the call first entered execute, the saturation waits it has begun, the
\* invocations of its operation, and the time its current wait began.
\* kind tells what the call is: "op" for a bare execute, "price" for
\* fetchPrice, "batch" for fetchMultiplePrices, with their locals: symbols
\* (the request), at (the loop index), got (what the pending cache.get
\* found), hits (results, the cached quotes), uncached (uncachedSymbols),
\* quotes (results of fetchFromProviders, allResults of the batch round),
\* fresh (consensusPrices) and result (the value returned).  replies is
\* history: what each provider did in the call's last round; so are threw
\* (the error the operation last rejected with), resetSeen (reset() ran
\* during the call's current wait) and clearSeen (the aggregator's
\* clearCache ran after the call's current round had begun).
IdleCall ==
  [pc |-> "idle", key |-> "k1", retries |-> 0, wakeAt |-> 0, why |-> "none",
   outcome |-> "none", r0 |-> -1, satWaits |-> 0, invocations |-> 0,
   sleptAt |-> 0,
   kind |-> "op", symbols |-> <<>>, at |-> 0, got |-> <<>>, hits |-> <<>>,
   uncached |-> <<>>, quotes |-> <<>>, fresh |-> <<>>, result |-> <<>>,
   replies |-> <<>>, wrote |-> FALSE, threw |-> "none", resetSeen |-> FALSE,
   clearSeen |-> FALSE]

\* The record of a call whose frame has stopped waiting.
Awake(rec) == [rec EXCEPT !.retries = 0, !.wakeAt = 0, !.why = "none", !.sleptAt = 0]

LimIdle ==
  /\ clock = 0
  /\ opts = [maxRequests |-> 1, windowMs |-> 2, retryAfterMs |-> 1, maxRetries |-> 1]
  /\ requests = <<>>
  /\ retryCount = <<>>
  /\ calls = [c \in CallIds |-> IdleCall]
  /\ started = <<>>

\* No EdgeCache operation has settled yet.
NothingReturned ==
  [op |-> "none", key |-> "none", data |-> <<>>, how |-> "none", outcome |-> "none",
   value |-> <<>>, at |-> 0, turn |-> 0, seen |-> 0]

\* An EdgeCache on the in-memory backend that is never used.
CacheIdle ==
  /\ options = [storage |-> "memory", maxSize |-> 1, defaultTTL |-> 1]
  /\ host = [localStorage |-> FALSE, indexedDB |-> FALSE, keys |-> 0, values |-> {},
             ttls |-> {}]
  /\ db = "none"
  /\ memoryCache = <<>>
  /\ localStorage = <<>>
  /\ objectStore = <<>>
  /\ returned = NothingReturned

\* An AssetValuator that is never used.
ValIdle ==
  /\ facadeCache = <<>>
  /\ cacheTimeout = 2
  /\ ops = <<>>
  /\ clearedKeys = {}

AggIdle ==
  /\ agg = [providers |-> 2, thresholdQ |-> DefaultThresholdQ, ttl |-> 2]
  /\ cache = <<>>
  /\ fetches = 0

ConsIdle ==
  /\ cPrices = <<>>
  /\ cThreshold = DefaultThresholdQ
  /\ cResult = [kind |-> "pending"]

\* All price lists of length 0..MaxQuotes.
QuoteLists == UNION {[1..n -> Prices] : n \in 0..MaxQuotes}

ConsInit ==
  /\ cPrices \in QuoteLists
  /\ cThreshold \in ThresholdQuarters
  /\ cResult = [kind |-> "pending"]
  /\ LimIdle
  /\ AggIdle
  /\ CacheIdle
  /\ ValIdle
  /\ GeckoIdle

\* One call of calculateConsensusPrice on the drawn quotes.
Reduce ==
  /\ cResult.kind = "pending"
  /\ cResult' = CalculateConsensusPrice(cPrices, cThreshold)
  /\ UNCHANGED <<cPrices, cThreshold, limVars, aggVars, cacheVars, valVars, geckoVars>>

SpecConsensus == ConsInit /\ [][Reduce]_vars

\* ------------------------------------------------- rate limiter: actions
\* new RateLimiter(options): empty window, no retry counters.
LimInit ==
  /\ clock = 0
  /\ opts \in LimiterOptions
  /\ requests = <<>>
  /\ retryCount = <<>>
  /\ calls = [c \in CallIds |-> IdleCall]
  /\ started = <<>>
  /\ ConsIdle
  /\ AggIdle
  /\ CacheIdle
  /\ ValIdle
  /\ GeckoIdle

\* The invocations of the last windowMs at the time now.
StartedWithin(now) ==
  LET InWindow(t) == now - t < opts.windowMs
  IN  SelectSeq(started, InWindow)

\* Time passes.
Tick ==
  /\ clock < MaxTime
  /\ clock' = clock + 1
  /\ started' = StartedWithin(clock')
  /\ UNCHANGED <<opts, requests, retryCount, calls, consVars, aggVars, cacheVars, valVars, geckoVars>>

\* The body of execute from its first line to its first await, for call c
\* with record rec, entered with the retry counters rc: prune; at the limit
\* either throw (retries exhausted) or begin a backoff wait; below the limit
\* record the request, clear the key's counter and invoke the operation.
ExecuteBody(c, rec, rc) ==
  LET now == clock
      pruned == PruneRequests(requests, now, opts.windowMs)
      retries == RetriesOf(rc, rec.key)
      ms == BackoffMs(opts.retryAfterMs, retries)
  IN  IF AtLimit(pruned, opts.maxRequests)
      THEN /\ requests' = pruned
           /\ started' = started
           /\ IF RetriesExhausted(retries, opts.maxRetries)
              THEN /\ retryCount' = DeleteRetry(rc, rec.key)
                   /\ calls' = [calls EXCEPT ![c] =
                        [Awake(rec) EXCEPT !.pc = "done", !.outcome = "rateLimit"]]
              ELSE /\ retryCount' = rc
                   /\ calls' = [calls EXCEPT ![c] =
                        [rec EXCEPT !.pc = "sleep", !.why = "sat",
                                    !.retries = retries, !.wakeAt = now + ms,
                                    !.satWaits = @ + 1, !.sleptAt = now]]
      ELSE /\ requests' = Append(pruned, now)
           /\ retryCount' = DeleteRetry(rc, rec.key)
           /\ started' = Append(started, now)
           /\ calls' = [calls EXCEPT ![c] =
                [Awake(rec) EXCEPT !.pc = "running", !.invocations = @ + 1,
                                   !.at = 1, !.quotes = <<>>, !.fresh = <<>>,
                                   !.replies = <<>>, !.threw = "none",
                                   !.clearSeen = FALSE]]

\* A caller calls execute(key, fn).  Calls are numbered in the order in which
\* they are made, and keys in the order of their first use.
Execute(c, key) ==
  /\ calls[c].pc = "idle"
  /\ \A d \in CallIds : d < c => calls[d].pc # "idle"
  /\ key = "k2" => \E d \in CallIds : d < c /\ calls[d].key = "k1"
  /\ ExecuteBody(c, [calls[c] EXCEPT !.key = key, !.r0 = RetriesOf(retryCount, key)],
                 retryCount)
  /\ UNCHANGED <<clock, opts, consVars, aggVars, cacheVars, valVars, geckoVars>>

\* The backoff wait of call c is over: store retries + 1 for the key and
\* re-enter execute (lines 36-37 after a saturation wait, 59-60 after a
\* throttling rejection).
Wake(c) ==
  /\ calls[c].pc = "sleep"
  /\ TimerFired(clock, calls[c].wakeAt)
  /\ ExecuteBody(c, [calls[c] EXCEPT !.resetSeen = FALSE],
                 SetRetry(retryCount, calls[c].key, calls[c].retries + 1))
  /\ UNCHANGED <<clock, opts, consVars, aggVars, cacheVars, valVars, geckoVars>>

\* The catch block of execute for a rejection of the operation of call c,
\* whose record is rec, with the error named error: rethrown unless
\* is429Error holds of it (throttled) and retries are left.
OperationFailed(c, rec, throttled, error) ==
  LET retries == RetriesOf(retryCount, rec.key)
      ms == BackoffMs(opts.retryAfterMs, retries)
  IN  IF ~throttled
      THEN /\ calls' = [calls EXCEPT ![c] =
                [rec EXCEPT !.pc = "done", !.outcome = error, !.threw = error]]
           /\ UNCHANGED retryCount
      ELSE IF RetriesExhausted(retries, opts.maxRetries)
           THEN /\ retryCount' = DeleteRetry(retryCount, rec.key)
                /\ calls' = [calls EXCEPT ![c] =
                     [rec EXCEPT !.pc = "done", !.outcome = error, !.threw = error]]
           ELSE /\ retryCount' = retryCount
                /\ calls' = [calls EXCEPT ![c] =
                     [rec EXCEPT !.pc = "sleep", !.why = "429", !.retries = retries,
                                 !.threw = error,
                                 !.wakeAt = clock + ms, !.sleptAt = clock]]

\* A test that takes every rejection for a throttling one.
Is429ErrorAlways(how) == TRUE

\* is429Error(error), for the two kinds of rejection of the operation.
Is429Error(how) == how = "throttled"

\* The operation of call c settles: it resolves, it rejects with a
\* throttling error (is429Error) or it rejects with another error.
Settle(c, how) ==
  /\ calls[c].pc = "running"
  /\ IF how = "ok"
     THEN /\ calls' = [calls EXCEPT ![c].pc = "done", ![c].outcome = "ok"]
          /\ UNCHANGED retryCount
     ELSE OperationFailed(c, calls[c], Is429Error(how), how)
  /\ UNCHANGED <<clock, opts, requests, started, consVars, aggVars, cacheVars, valVars, geckoVars>>

LimNext ==
  \/ Tick
  \/ \E c \in CallIds, key \in Keys : Execute(c, key)
  \/ \E c \in CallIds : Wake(c)
  \/ \E c \in CallIds, how \in OperationOutcomes : Settle(c, how)

SpecLimiter == LimInit /\ [][LimNext]_vars

\* reset(): the window and the retry counters are emptied.  (The resets
\* followed are those made while a call is in a backoff wait, one for each
\* wait.)
Reset ==
  /\ \E c \in CallIds : calls[c].pc = "sleep"
  /\ \A c \in CallIds : ~calls[c].resetSeen
  /\ requests' = <<>>
  /\ retryCount' = <<>>
  /\ calls' = [c \in CallIds |->
                IF calls[c].pc = "sleep" THEN [calls[c] EXCEPT !.resetSeen = TRUE]
                ELSE calls[c]]
  /\ UNCHANGED <<clock, opts, started, consVars, aggVars, cacheVars, valVars, geckoVars>>

\* A caller whose call has ended calls execute(key, fn) again.
ExecuteAgain(c, key) ==
  /\ calls[c].pc = "done"
  /\ ExecuteBody(c, [IdleCall EXCEPT !.key = key, !.r0 = RetriesOf(retryCount, key)],
                 retryCount)
  /\ UNCHANGED <<clock, opts, consVars, aggVars, cacheVars, valVars, geckoVars>>

\* The limiter with reset(), under the options with one request a window
\* and two retries.
ResetInit ==
  /\ LimInit
  /\ opts.maxRequests = 1
  /\ opts.maxRetries = 2

ResetNext ==
  \/ Tick
  \/ \E c \in CallIds : Execute(c, "k1")
  \/ \E c \in CallIds : ExecuteAgain(c, "k1")
  \/ \E c \in CallIds : Wake(c)
  \/ \E c \in CallIds : Settle(c, "ok")
  \/ Reset

SpecReset == ResetInit /\ [][ResetNext]_vars

\* --------------------------------------------------- aggregator: actions
\* new DecentralizedAggregator(providers, options) where neither IndexedDB
\* nor localStorage exists: the cache is the in-memory Map.
AggInit ==
  /\ clock = 0
  /\ \E setup \in AggregatorSetups : opts = setup[1] /\ agg = setup[2]
  /\ requests = <<>>
  /\ retryCount = <<>>
  /\ calls = [c \in CallIds |-> IdleCall]
  /\ started = <<>>
  /\ cache = <<>>
  /\ fetches = 0
  /\ ConsIdle
  /\ CacheIdle
  /\ ValIdle
  /\ GeckoIdle

\* The aggregator's caller awaits each fetch, and makes the next one after
\* a delay: no fetch is in flight, and the caller is the first one.  The
\* first fetch is made at time 0 (only differences of times are ever read).
\* (Overlapping calls of execute are SpecLimiter's.)
Awaited(c, delay) ==
  /\ \A d \in CallIds : calls[d].pc \in {"idle", "done"}
  /\ \A d \in CallIds : c <= d
  /\ fetches < MaxFetches
  /\ fetches = 0 => delay = 0
  /\ clock + delay <= MaxTime
  /\ fetches' = fetches + 1
  /\ clock' = clock + delay
  /\ started' = StartedWithin(clock')

\* The PriceData built from a consensus price.
PriceDataOf(symbol, prices, now) ==
  [symbol |-> symbol,
   price |-> CalculateConsensusPrice(prices, agg.thresholdQ).price,
   timestamp |-> now]

\* The caller calls fetchPrice(symbol): the cache is read under the key of the
\* symbol as given.
FetchPrice(c, symbol, delay) ==
  LET read == CacheGet(cache, CacheKey(symbol), clock')
  IN  /\ Awaited(c, delay)
      /\ cache' = read.store
      /\ calls' = [calls EXCEPT ![c] =
           [IdleCall EXCEPT !.pc = "cacheRead", !.kind = "price", !.symbols = <<symbol>>,
                     !.key = CacheKey(symbol), !.got = read.hit]]
      /\ UNCHANGED <<opts, requests, retryCount, agg, consVars, cacheVars, valVars, geckoVars>>

\* A lookup that reports every read as a miss.
ServedNever(rec) == FALSE

\* if (cached): the cache read of the call returned an entry.
ServedFromCache(rec) == rec.got # <<>>

\* fetchPrice after its cache read: a hit is returned, a miss enters the
\* rate limiter under the cache key.
FetchPriceCacheRead(c) ==
  LET rec == calls[c]
  IN  /\ rec.pc = "cacheRead"
      /\ IF ServedFromCache(rec)
         THEN /\ calls' = [calls EXCEPT ![c] =
                   [rec EXCEPT !.pc = "done", !.outcome = "ok", !.result = rec.got]]
              /\ UNCHANGED <<requests, retryCount, started>>
         ELSE ExecuteBody(c, [rec EXCEPT !.r0 = RetriesOf(retryCount, rec.key)],
                          retryCount)
      /\ UNCHANGED <<clock, opts, aggVars, consVars, cacheVars, valVars, geckoVars>>

\* The operation fetchPrice hands to the limiter, once fetchFromProviders
\* has returned quotes to call c, whose record is rec: no quote is the
\* no-price-data error, thrown into execute's catch block with the symbol in
\* its message; otherwise the consensus price is cached under the cache key
\* and returned.
PriceRoundEnds(c, rec) ==
  LET symbol == rec.symbols[1]
      priceData == PriceDataOf(ToUpperCase(symbol), PricesOf(rec.quotes), clock)
  IN  IF rec.quotes = <<>>
      THEN /\ OperationFailed(c, rec, Includes429(symbol), "noData")
           /\ UNCHANGED cache
      ELSE /\ cache' = CacheSet(cache, rec.key, priceData, clock, agg.ttl, CacheMaxSize)
           /\ calls' = [calls EXCEPT ![c] =
                [rec EXCEPT !.pc = "done", !.outcome = "ok",
                            !.result = <<priceData>>, !.wrote = TRUE]]
           /\ UNCHANGED retryCount

\* fetchFromProviders: the provider at hand settles its fetchPrice.  A quote
\* is pushed and ends the loop once there are enough; a rejection is caught
\* and the loop goes on.
ProviderReplies(c, reply) ==
  LET rec == calls[c]
      pushed == IF reply.kind = "quote"
                THEN Append(rec.quotes, [symbol |-> ToUpperCase(rec.symbols[1]),
                                         price |-> reply.price])
                ELSE rec.quotes
      heard == [rec EXCEPT !.quotes = pushed, !.replies = Append(@, reply.kind),
                           !.at = @ + 1]
      last == \/ rec.at = agg.providers
              \/ /\ reply.kind = "quote"
                 /\ EnoughForConsensus(Len(pushed), agg.providers, agg.thresholdQ)
  IN  /\ rec.pc = "running"
      /\ rec.kind = "price"
      /\ rec.at <= agg.providers
      /\ IF reply.kind # "quote" /\ ~Caught(reply)
         THEN /\ OperationFailed(c, heard, reply.kind = "throttled", "error")
              /\ UNCHANGED cache
         ELSE IF last
              THEN PriceRoundEnds(c, heard)
              ELSE /\ calls' = [calls EXCEPT ![c] = heard]
                   /\ UNCHANGED <<retryCount, cache>>
      /\ UNCHANGED <<clock, opts, requests, started, agg, fetches, consVars, cacheVars, valVars, geckoVars>>

\* The caller calls fetchMultiplePrices(symbols): the cache is read for the
\* first symbol.
FetchMultiplePrices(c, symbols, delay) ==
  LET read == CacheGet(cache, CacheKey(symbols[1]), clock')
  IN  /\ Awaited(c, delay)
      /\ cache' = read.store
      /\ calls' = [calls EXCEPT ![c] =
           [IdleCall EXCEPT !.pc = "batchRead", !.kind = "batch", !.symbols = symbols,
                     !.at = 1, !.got = read.hit]]
      /\ UNCHANGED <<opts, requests, retryCount, agg, consVars, cacheVars, valVars, geckoVars>>

\* fetchMultiplePrices after a cache read: a hit goes to the results, a miss
\* to the uncached symbols; then the next symbol is read, or, after the
\* last, the uncached symbols go through the limiter under their batch key
\* (none uncached: the results are returned).
BatchCacheRead(c) ==
  LET rec == calls[c]
      symbol == rec.symbols[rec.at]
      sorted == IF rec.got # <<>>
                THEN [rec EXCEPT !.hits = @ \o rec.got, !.got = <<>>]
                ELSE [rec EXCEPT !.uncached = Append(@, symbol)]
  IN  /\ rec.pc = "batchRead"
      /\ IF rec.at < Len(rec.symbols)
         THEN LET read == CacheGet(cache, CacheKey(rec.symbols[rec.at + 1]), clock)
              IN  /\ cache' = read.store
                  /\ calls' = [calls EXCEPT ![c] =
                       [sorted EXCEPT !.at = @ + 1, !.got = read.hit]]
                  /\ UNCHANGED <<requests, retryCount, started>>
         ELSE /\ cache' = cache
              /\ IF sorted.uncached = <<>>
                 THEN /\ calls' = [calls EXCEPT ![c] =
                           [sorted EXCEPT !.pc = "done", !.outcome = "ok",
                                          !.result = sorted.hits]]
                      /\ UNCHANGED <<requests, retryCount, started>>
                 ELSE LET key == BatchKey(sorted.uncached)
                      IN  ExecuteBody(c,
                            [sorted EXCEPT !.key = key,
                                           !.r0 = RetriesOf(retryCount, key)],
                            retryCount)
      /\ UNCHANGED <<clock, opts, agg, fetches, consVars, cacheVars, valVars, geckoVars>>

RECURSIVE ConsensusPrices(_, _)
\* consensusPrices: one PriceData per group, in the groups' order.
ConsensusPrices(grouped, now) ==
  IF grouped = <<>> THEN <<>>
  ELSE <<PriceDataOf(Head(grouped).symbol, PricesOf(Head(grouped).prices), now)>>
         \o ConsensusPrices(Tail(grouped), now)

\* A batch that caches the first of its consensus prices only.
CacheFirst(store, fresh, now) ==
  IF fresh = <<>> THEN store
  ELSE CacheSet(store, CacheKey(Head(fresh).symbol), Head(fresh), now,
                agg.ttl, CacheMaxSize)

RECURSIVE CacheEach(_, _, _)
\* Each consensus price is cached under `${symbol}-${currency}`, the symbol
\* being the group's (upper-case) one.
CacheEach(store, fresh, now) ==
  IF fresh = <<>> THEN store
  ELSE CacheEach(CacheSet(store, CacheKey(Head(fresh).symbol), Head(fresh), now,
                          agg.ttl, CacheMaxSize),
                 Tail(fresh), now)

\* The operation fetchMultiplePrices hands to the limiter: the provider at
\* hand settles its fetchMultiplePrices.  Its quotes are collected, its
\* rejection is caught; after the last provider the quotes are grouped, each
\* group's consensus price is cached, and the call returns the cached
\* results followed by the consensus prices.
ProviderBatchReplies(c, reply) ==
  LET rec == calls[c]
      heard == [rec EXCEPT !.quotes = @ \o reply.quotes,
                           !.replies = Append(@, reply.kind), !.at = @ + 1]
      fresh == ConsensusPrices(GroupBySymbol(heard.quotes, <<>>), clock)
  IN  /\ rec.pc = "running"
      /\ rec.kind = "batch"
      /\ rec.at <= agg.providers
      /\ reply \in BatchReplies(rec.uncached)
      /\ IF reply.kind = "fail" /\ ~BatchCaught(reply)
         THEN /\ OperationFailed(c, heard, FALSE, "error")
              /\ UNCHANGED cache
         ELSE IF rec.at = agg.providers
              THEN /\ cache' = CacheEach(cache, fresh, clock)
                   /\ calls' = [calls EXCEPT ![c] =
                        [heard EXCEPT !.pc = "done", !.outcome = "ok", !.fresh = fresh,
                                      !.result = heard.hits \o fresh,
                                      !.wrote = fresh # <<>>]]
                   /\ UNCHANGED retryCount
              ELSE /\ calls' = [calls EXCEPT ![c] = heard]
                   /\ UNCHANGED <<retryCount, cache>>
      /\ UNCHANGED <<clock, opts, requests, started, agg, fetches, consVars, cacheVars, valVars, geckoVars>>

\* Time passes while a fetch is in a backoff wait.  (Between two fetches it
\* passes as the caller's delay; a read of the in-memory cache is continued
\* in a microtask, and a provider settles within the time unit, which stands
\* for the 2000 ms of retryAfterMs.)
AggTick ==
  /\ \E c \in CallIds : calls[c].pc = "sleep"
  /\ Tick

AggNext ==
  \/ AggTick
  \/ \E c \in CallIds, symbol \in Symbols, delay \in CallerDelays :
       FetchPrice(c, symbol, delay)
  \/ \E c \in CallIds : FetchPriceCacheRead(c)
  \/ \E c \in CallIds, reply \in PriceReplies : ProviderReplies(c, reply)
  \/ \E c \in CallIds, symbols \in BatchRequests, delay \in CallerDelays :
       FetchMultiplePrices(c, symbols, delay)
  \/ \E c \in CallIds : BatchCacheRead(c)
  \/ \E c \in CallIds, reply \in AnyBatchReply : ProviderBatchReplies(c, reply)
  \/ \E c \in CallIds : Wake(c)

SpecAggregator == AggInit /\ [][AggNext]_vars

\* ------------------------------------------------- claims: the reduction
\* The vocabulary of the claims, stated on the quotes themselves (no sort).
Reduced == cResult.kind = "value" /\ Len(cPrices) >= 2
AllPositive(prices) == \A i \in DOMAIN prices : prices[i] > 0
CountBelow(prices, m) == Cardinality({i \in DOMAIN prices : prices[i] < m})
CountUpTo(prices, m) == Cardinality({i \in DOMAIN prices : prices[i] <= m})
\* m is the element at 0-based rank floor(n / 2) of the ascending order.
IsUpperMedian(prices, m) ==
  CountBelow(prices, m) <= Len(prices) \div 2 /\ Len(prices) \div 2 < CountUpTo(prices, m)
\* m is the element at 0-based rank floor((n - 1) / 2) of the ascending order.
IsLowerMedian(prices, m) ==
  /\ CountBelow(prices, m) <= (Len(prices) - 1) \div 2
  /\ (Len(prices) - 1) \div 2 < CountUpTo(prices, m)
\* The quotes whose price lies within 10% of m (m > 0).
InBand(prices, m) == {i \in DOMAIN prices : 10 * Abs(prices[i] - m) <= m}
RECURSIVE SumAt(_, _)
SumAt(prices, I) ==
  IF I = {} THEN 0
  ELSE LET i == CHOOSE j \in I : TRUE IN prices[i] + SumAt(prices, I \ {i})
MaxOf(a, b) == IF a >= b THEN a ELSE b

\* C1: for two or more positive quotes of which at least count x threshold
\* lie within 10% of the median, the result is the arithmetic mean of
\* exactly the prices within 10% of the median; [100,101,102] gives 101 and
\* [100,100,1000] gives 100 at threshold 0.5.
C1_MeanOfSurvivors ==
  /\ (Reduced /\ AllPositive(cPrices)) =>
       \A m \in Prices :
         (IsUpperMedian(cPrices, m)
            /\ 4 * Cardinality(InBand(cPrices, m)) >= Len(cPrices) * cThreshold)
         => cResult.price.num * Cardinality(InBand(cPrices, m))
              = SumAt(cPrices, InBand(cPrices, m)) * cResult.price.den
  /\ (Reduced /\ cPrices = <<100, 101, 102>> /\ cThreshold = DefaultThresholdQ)
       => FracEq(cResult.price, Frac(101, 1))
  /\ (Reduced /\ cPrices = <<100, 100, 1000>> /\ cThreshold = DefaultThresholdQ)
       => FracEq(cResult.price, Frac(100, 1))

\* A reduction that drops an outlier and averages two survivors that differ,
\* so the mean is neither the median nor the mean of all quotes.
C1_Witness ==
  /\ Reduced /\ cPrices = <<1000, 100, 102>> /\ cThreshold = DefaultThresholdQ
  /\ FracEq(cResult.price, Frac(101, 1))

\* C2 as stated: on an even number of quotes the median used is the
\* lower-middle element of the ascending order (of two quotes, the smaller).
C2_LowerMiddleOnEven ==
  (Reduced /\ Len(cPrices) % 2 = 0) => IsLowerMedian(cPrices, cResult.median)

\* C2 amended: the median used is the element at 0-based rank floor(n / 2) of
\* the ascending order: the middle on odd counts, the upper-middle element on
\* even counts (of two quotes, the larger).
C2_UpperMiddleOnEven ==
  /\ Reduced => IsUpperMedian(cPrices, cResult.median)
  /\ (Reduced /\ Len(cPrices) = 2) => cResult.median = MaxOf(cPrices[1], cPrices[2])

\* Two different quotes: the median used is the larger one.
C2_Witness ==
  /\ Reduced /\ Len(cPrices) = 2 /\ cPrices[1] < cPrices[2]
  /\ cResult.median = cPrices[2]

\* C3: for two or more quotes, when fewer than count x threshold prices
\* survive the 10% filter the result is the median itself, not the mean of
\* the survivors.
C3_FallbackToMedian ==
  Reduced =>
    \A m \in Prices :
      (IsUpperMedian(cPrices, m)
         /\ 4 * Cardinality(InBand(cPrices, m)) < Len(cPrices) * cThreshold)
      => FracEq(cResult.price, Frac(m, 1))

\* A fallback whose median differs from the mean of the survivors:
\* [100, 101, 1000] at threshold 1 keeps 100 and 101 (2 < 3) and returns 101.
C3_Witness ==
  /\ Reduced /\ cPrices = <<100, 101, 1000>> /\ cThreshold = 4
  /\ FracEq(cResult.price, Frac(101, 1))
  /\ InBand(cPrices, 101) = {1, 2}

\* C4 as stated: two quotes that differ by more than 10% (here: of the
\* larger, the reading kindest to the claim) at threshold 0.5 leave too few
\* survivors, and the result is the fallback to the median.
C4_TooFewSurvive ==
  (Reduced /\ Len(cPrices) = 2 /\ cThreshold = DefaultThresholdQ
     /\ 10 * Abs(cPrices[1] - cPrices[2]) > MaxOf(cPrices[1], cPrices[2]))
  => /\ 4 * Cardinality(InBand(cPrices, cResult.median)) < Len(cPrices) * cThreshold
     /\ FracEq(cResult.price, Frac(cResult.median, 1))

\* C4 amended: two quotes that differ by more than 10% of the larger, at
\* threshold 0.5: only the larger price (the median) survives the filter,
\* one survivor meets count x threshold = 1, so the fallback is not taken;
\* the result is the mean of that single survivor, the larger price.
C4_SingleSurvivorMean ==
  (Reduced /\ Len(cPrices) = 2 /\ cThreshold = DefaultThresholdQ
     /\ 10 * Abs(cPrices[1] - cPrices[2]) > MaxOf(cPrices[1], cPrices[2]))
  => /\ Cardinality(InBand(cPrices, cResult.median)) = 1
     /\ 4 * Cardinality(InBand(cPrices, cResult.median)) >= Len(cPrices) * cThreshold
     /\ cResult.branch = "mean"
     /\ FracEq(cResult.price, Frac(MaxOf(cPrices[1], cPrices[2]), 1))

\* The spec's example, [10, 1000] at threshold 0.5: the result is 1000.
C4_Witness ==
  /\ Reduced /\ cPrices = <<10, 1000>> /\ cThreshold = DefaultThresholdQ
  /\ FracEq(cResult.price, Frac(1000, 1))

\* ----------------------------------------------- claims: the rate limiter
\* The length of the wait call c is in.
WaitLength(rec) == rec.wakeAt - rec.sleptAt
SatWaiting(rec) == rec.pc = "sleep" /\ rec.why = "sat"

\* C8: across all keys and under any interleaving of execute calls, at most
\* maxRequests operations are invoked within any window (t - windowMs, t],
\* and the retained timestamp list never holds more than maxRequests entries.
C8_WindowBound ==
  /\ Len(requests) <= opts.maxRequests
  /\ Len(started) <= opts.maxRequests
  /\ \A i \in DOMAIN started : clock - started[i] < opts.windowMs

\* Two calls under a ceiling of one: the second was held back while the
\* first one's request was in the window, and was invoked after it had left.
C8_Witness ==
  /\ opts.maxRequests = 1
  /\ calls[1].invocations = 1 /\ calls[2].invocations = 1
  /\ calls[2].satWaits >= 1
  /\ calls[2].pc = "running"
  /\ Len(started) = 1

\* C9: a call that finds the window full waits retryAfterMs x 2^r, r the
\* key's retry count at that moment (retryAfterMs when the key has none), and
\* its operation is not invoked before that time has elapsed; each further
\* wait of the same call is twice the one before.
C9_StateInv ==
  \A c \in CallIds :
    SatWaiting(calls[c]) =>
      /\ WaitLength(calls[c]) = opts.retryAfterMs * Pow2(calls[c].retries)
      /\ (calls[c].satWaits = 1 /\ calls[c].invocations = 0)
           => calls[c].retries = calls[c].r0
      /\ (calls[c].satWaits = 1 /\ calls[c].invocations = 0 /\ calls[c].r0 = 0)
           => WaitLength(calls[c]) = opts.retryAfterMs
C9_Step ==
  \A c \in CallIds :
    /\ (SatWaiting(calls[c]) /\ calls'[c].pc = "running")
         => clock >= calls[c].sleptAt + opts.retryAfterMs * Pow2(calls[c].retries)
    /\ (SatWaiting(calls[c]) /\ calls'[c] # calls[c] /\ SatWaiting(calls'[c]))
         => /\ clock >= calls[c].sleptAt + WaitLength(calls[c])
            /\ WaitLength(calls'[c]) = 2 * WaitLength(calls[c])
C9_SaturationBackoff == []C9_StateInv /\ [][C9_Step]_vars

\* A call that waited retryAfterMs and then twice as long, and whose
\* operation was invoked after the second wait.
C9_Witness ==
  \E c \in CallIds :
    /\ calls[c].pc = "running" /\ calls[c].satWaits = 2 /\ calls[c].invocations = 1
    /\ calls[c].r0 = 0

\* C10 as stated: while the window stays full (the operation is never
\* invoked), a call performs exactly maxRetries backoff waits and then fails
\* with the rate-limit error.
C10_ExactlyMaxRetriesWaits ==
  \A c \in CallIds :
    (calls[c].pc = "done" /\ calls[c].outcome = "rateLimit" /\ calls[c].invocations = 0)
      => calls[c].satWaits = opts.maxRetries

\* C10 amended: while the window stays full (the operation is never
\* invoked), a call that entered execute when its key's retry counter was r0
\* (0 if the key had none) performs at most maxRetries - r0 backoff waits,
\* and when it fails with the rate-limit error it has performed exactly
\* maxRetries - r0: exactly maxRetries if the key had no counter, which is
\* always so with maxRetries = 1.
C10_WaitsBoundedByKeyCounter ==
  \A c \in CallIds :
    (calls[c].pc # "idle" /\ calls[c].invocations = 0) =>
      /\ calls[c].r0 >= 0 /\ calls[c].r0 <= opts.maxRetries
      /\ calls[c].satWaits <= opts.maxRetries - calls[c].r0
      /\ (calls[c].pc = "done")
           => /\ calls[c].outcome = "rateLimit"
              /\ calls[c].satWaits = opts.maxRetries - calls[c].r0
      /\ opts.maxRetries = 1 => calls[c].r0 = 0

\* A call that found no counter for its key, waited maxRetries = 2 times
\* and failed without its operation ever being invoked.
C10_Witness ==
  \E c \in CallIds :
    /\ calls[c].pc = "done" /\ calls[c].outcome = "rateLimit"
    /\ calls[c].invocations = 0 /\ calls[c].r0 = 0
    /\ opts.maxRetries = 2 /\ calls[c].satWaits = 2


\* ------------------------------------------------------ claims: aggregator
\* Some provider of the call's last round returned a quote.
SomeQuote(rec) == \E i \in DOMAIN rec.replies : rec.replies[i] \in {"quote", "quotes"}
\* Every configured provider was asked in the call's last round, and failed.
AllFailed(rec) ==
  /\ Len(rec.replies) = agg.providers
  /\ \A i \in DOMAIN rec.replies : rec.replies[i] \in {"fail", "throttled"}
\* The provider loop of the call's last round is over.
RoundOver(rec) == rec.replies # <<>> /\ rec.pc # "running"
\* The cache holds an entry under key.
Cached(key) == \E i \in DOMAIN cache : cache[i].key = key

\* C5: a fetchPrice that found no cached entry and whose providers returned
\* at least one quote, whichever of them failed, resolves without error with
\* the consensus price of the quotes collected; with exactly one quote
\* collected the price returned is that quote's price.
C5_ResolvesOnAnyQuote ==
  \A c \in CallIds :
    LET rec == calls[c]
    IN  (rec.kind = "price" /\ RoundOver(rec) /\ SomeQuote(rec)) =>
          /\ rec.pc = "done"
          /\ rec.outcome = "ok"
          /\ Len(rec.result) = 1
          /\ FracEq(rec.result[1].price,
                    CalculateConsensusPrice(PricesOf(rec.quotes), agg.thresholdQ).price)
          /\ Len(rec.quotes) = 1 =>
               rec.result[1].price = Frac(rec.quotes[1].price, 1)

\* The first of two providers failed, the second returned a quote, and the
\* call has returned.
C5_Witness ==
  \E c \in CallIds :
    /\ calls[c].kind = "price"
    /\ calls[c].replies = <<"fail", "quote">>
    /\ calls[c].pc = "done"
    /\ calls[c].got = <<>>
    /\ Len(calls[c].quotes) = 1

\* C6: a fetchPrice all of whose providers failed rejects with the
\* no-price-data error, and the cache holds no entry under its key.
C6_AllFailRejectsNoData ==
  \A c \in CallIds :
    LET rec == calls[c]
    IN  (rec.kind = "price" /\ AllFailed(rec)) =>
          /\ rec.pc = "done"
          /\ rec.outcome = "noData"
          /\ ~rec.wrote
          /\ ~Cached(rec.key)

\* The symbols of the quotes the providers returned, and the quotes of one.
QuotedSymbols(rec) == {rec.quotes[i].symbol : i \in DOMAIN rec.quotes}
QuotesOf(rec, symbol) ==
  LET IsOf(q) == q.symbol = symbol
  IN  SelectSeq(rec.quotes, IsOf)
\* The part of a batch call's result that follows the cached quotes.
Fetched(rec) == SubSeq(rec.result, Len(rec.hits) + 1, Len(rec.result))

\* C7: fetchMultiplePrices does not reject because providers fail: it ends
\* in no error but the limiter's own rate-limit error, and it backs off
\* only for a saturated window, never for a provider's failure.
\* Once every provider has settled the call resolves with the cached quotes
\* followed by one consensus quote for each symbol some provider quoted; a
\* symbol no provider quoted is left out, and when every provider threw the
\* result is the cached quotes alone.
C7_BatchNeverRejectsOnFailure ==
  \A c \in CallIds :
    LET rec == calls[c]
        fetched == Fetched(rec)
    IN  rec.kind = "batch" =>
          /\ rec.pc = "done" => rec.outcome \in {"ok", "rateLimit"}
          /\ rec.pc = "sleep" => rec.why = "sat"
          /\ RoundOver(rec) =>
               /\ rec.pc = "done" /\ rec.outcome = "ok"
               /\ Len(rec.result) = Len(rec.hits) + Cardinality(QuotedSymbols(rec))
               /\ SubSeq(rec.result, 1, Len(rec.hits)) = rec.hits
               /\ {fetched[i].symbol : i \in DOMAIN fetched} = QuotedSymbols(rec)
               /\ \A i \in DOMAIN fetched :
                    FracEq(fetched[i].price,
                           CalculateConsensusPrice(
                             PricesOf(QuotesOf(rec, fetched[i].symbol)),
                             agg.thresholdQ).price)
               /\ AllFailed(rec) => rec.result = rec.hits

\* BTC and eth were asked of the providers, one provider threw, no provider
\* quoted BTC, and the call returned ETH alone.
C7_Witness ==
  \E c \in CallIds :
    /\ calls[c].kind = "batch"
    /\ calls[c].pc = "done"
    /\ calls[c].uncached = <<"BTC", "eth">>
    /\ "fail" \in {calls[c].replies[i] : i \in DOMAIN calls[c].replies}
    /\ QuotedSymbols(calls[c]) = {"ETH"}
    /\ Len(calls[c].result) = 1
    /\ calls[c].result[1].symbol = "ETH"

\* ------------------------------------------- claims: upstream throttling
\* C11: an operation that is rejected as throttled on every invocation is
\* retried at most maxRetries times: no call invokes its operation more than
\* maxRetries + 1 times.
C11_ThrottleRetriesBounded ==
  \A c \in CallIds : calls[c].invocations <= opts.maxRetries + 1

\* C12: when a provider rejected with a throttling error in a fetchPrice
\* round, the call does not return that round's outcome: it is in the
\* limiter's backoff, or it has failed as rate limited.
C12_ProviderThrottlingEscalates ==
  \A c \in CallIds :
    LET rec == calls[c]
    IN  (/\ rec.kind = "price"
         /\ RoundOver(rec)
         /\ \E i \in DOMAIN rec.replies : rec.replies[i] = "throttled") =>
          \/ rec.pc = "sleep"
          \/ rec.pc = "done" /\ rec.outcome = "rateLimit"

\* ---------------------------------------------------------------- EdgeCache
\* How long a run of SpecCache lasts, and how many operations of the cache
\* are called in it.
MaxCacheTime == 3
MaxCacheOps == 4

\* Keys, values and ttl arguments the cache's user passes; the ttl argument
\* 0 stands for an omitted one (ttl || defaultTTL).  The keys are named in
\* the order in which the user first passes them.
CacheKeyNames == <<"a", "b", "c">>
DataValues == {"v1", "v2"}
TtlArguments == {0, 1}

\* How an EdgeCache is constructed, on what host, and how it is used: the
\* storage option, whether the host has that storage, maxSize, and how many
\* keys, which values and which ttl arguments its user passes (three keys
\* take the in-memory backend past two entries; one key is set again with
\* another value and another ttl).  defaultTTL is two time units.
CacheSetups ==
  { [storage |-> "memory", available |-> TRUE, maxSize |-> 2,
     keys |-> 3, values |-> {"v1"}, ttls |-> {0}],
    [storage |-> "memory", available |-> TRUE, maxSize |-> 1,
     keys |-> 1, values |-> DataValues, ttls |-> TtlArguments],
    [storage |-> "localStorage", available |-> TRUE, maxSize |-> 1,
     keys |-> 2, values |-> {"v1"}, ttls |-> {0}],
    [storage |-> "localStorage", available |-> FALSE, maxSize |-> 1,
     keys |-> 2, values |-> {"v1"}, ttls |-> {0}],
    [storage |-> "indexedDB", available |-> TRUE, maxSize |-> 1,
     keys |-> 2, values |-> {"v1"}, ttls |-> {0}],
    [storage |-> "indexedDB", available |-> FALSE, maxSize |-> 1,
     keys |-> 2, values |-> {"v1"}, ttls |-> {0}] }

\* The place of a key in CacheKeyNames; 0 for no key.
KeyNumber(key) ==
  IF \E i \in DOMAIN CacheKeyNames : CacheKeyNames[i] = key
  THEN CHOOSE i \in DOMAIN CacheKeyNames : CacheKeyNames[i] = key
  ELSE 0

\* Map.get / getItem / store.get: the entry under key, if any.
Lookup(store, key) ==
  LET at == {i \in DOMAIN store : store[i].key = key}
  IN  IF at = {} THEN <<>> ELSE <<store[CHOOSE i \in at : TRUE]>>

\* Map.delete / removeItem / store.delete.
Without(store, key) ==
  LET Other(e) == e.key # key
  IN  SelectSeq(store, Other)

\* Map.set / setItem / store.put: a key already present keeps its place.
MapSet(store, entry) ==
  LET at == {i \in DOMAIN store : store[i].key = entry.key}
  IN  IF at = {} THEN Append(store, entry)
      ELSE [store EXCEPT ![CHOOSE i \in at : TRUE] = entry]

\* An expiry test that lets the entry live one time unit longer.
IsFreshInclusive(entry, now) == now - entry.timestamp <= entry.ttl

\* now - entry.timestamp < entry.ttl.
IsFresh(entry, now) == now - entry.timestamp < entry.ttl

\* An entry that carries no time of its own.
NewEntryUnstamped(key, data, ttl, now) ==
  [key |-> key, data |-> data, timestamp |-> 0,
   ttl |-> IF ttl # 0 THEN ttl ELSE options.defaultTTL]

\* The CacheEntry that set builds.
NewEntry(key, data, ttl, now) ==
  [key |-> key, data |-> data, timestamp |-> now,
   ttl |-> IF ttl # 0 THEN ttl ELSE options.defaultTTL]

\* A localStorage item: the entry as JSON text, which may have been damaged.
Item(entry) == [key |-> entry.key, entry |-> entry, corrupt |-> FALSE]

\* evictOldest's sort key: entry.timestamp || 0, and 0 when JSON.parse throws.
Stamp(item) == IF item.corrupt THEN 0 ELSE item.entry.timestamp

RECURSIVE DropOldest(_, _)
\* The items without the k first of them in the order of their stamps (the
\* sort is stable; Object.keys is taken to list the items in insertion order).
DropOldest(items, k) ==
  IF k = 0 \/ items = <<>> THEN items
  ELSE LET oldest == CHOOSE i \in DOMAIN items :
                       \A j \in DOMAIN items :
                         \/ Stamp(items[i]) < Stamp(items[j])
                         \/ Stamp(items[i]) = Stamp(items[j]) /\ i <= j
       IN  DropOldest(SubSeq(items, 1, oldest - 1)
                        \o SubSeq(items, oldest + 1, Len(items)), k - 1)

\* evictOldest: the oldest 10% of the cache_ items, rounded up, are removed.
EvictOldest(items) == DropOldest(items, (Len(items) + 9) \div 10)

\* An operation of the cache settles, the next of the run: the operation and
\* its arguments, the branch it took (how), whether its promise resolved or
\* rejected, the value it resolved with, and the time.
Settled(op, key, data, how, value) ==
  [op |-> op, key |-> key, data |-> data, how |-> how,
   outcome |-> IF how = "threw" THEN "rejected" ELSE "resolved",
   value |-> value,
   at |-> clock,
   turn |-> returned.turn + 1,
   seen |-> IF KeyNumber(key) > returned.seen THEN KeyNumber(key) ELSE returned.seen]

\* The keys the user may pass next: those passed before, and the next one.
KeysUsed ==
  {CacheKeyNames[i] : i \in {j \in DOMAIN CacheKeyNames :
                                j <= host.keys /\ j <= returned.seen + 1}}

\* The cache's user may make another call.
MayCall == returned.turn < MaxCacheOps

\* new EdgeCache(options): with storage 'indexedDB' on a host that has it,
\* the database is being opened.  The stores are empty.
CacheInit ==
  /\ \E setup \in CacheSetups :
       /\ options = [storage |-> setup.storage, maxSize |-> setup.maxSize,
                     defaultTTL |-> 2]
       /\ host = [localStorage |-> setup.storage = "localStorage" /\ setup.available,
                  indexedDB |-> setup.storage = "indexedDB" /\ setup.available,
                  keys |-> setup.keys, values |-> setup.values,
                  ttls |-> setup.ttls]
  /\ db = IF options.storage = "indexedDB" /\ host.indexedDB THEN "opening" ELSE "none"
  /\ memoryCache = <<>>
  /\ localStorage = <<>>
  /\ objectStore = <<>>
  /\ returned = NothingReturned
  /\ ConsIdle
  /\ LimIdle
  /\ AggIdle
  /\ ValIdle
  /\ GeckoIdle

\* initIndexedDB: the open request succeeds and this.db is set, or it fails
\* and the cache switches to the in-memory backend.
OpenSettles(ok) ==
  /\ db = "opening"
  /\ IF ok
     THEN db' = "open" /\ UNCHANGED options
     ELSE db' = "none" /\ options' = [options EXCEPT !.storage = "memory"]
  /\ UNCHANGED <<host, memoryCache, localStorage, objectStore, returned>>
  /\ UNCHANGED <<consVars, limVars, aggVars, valVars, geckoVars>>

\* The text of a localStorage item is damaged from outside the cache.
Corrupt(key) ==
  /\ \E i \in DOMAIN localStorage :
       /\ localStorage[i].key = key
       /\ ~localStorage[i].corrupt
       /\ localStorage' = [localStorage EXCEPT ![i].corrupt = TRUE]
  /\ UNCHANGED <<options, host, db, memoryCache, objectStore, returned>>
  /\ UNCHANGED <<consVars, limVars, aggVars, valVars, geckoVars>>

\* get(key).  fault: the backend call throws (getItem, the transaction or
\* the request); damaged text makes JSON.parse throw.  Both are caught.
Get(key, fault) ==
  LET now == clock
      Absent(how) == Settled("get", key, <<>>, how, <<>>)
      Found(entry) == Settled("get", key, <<>>, "hit", <<entry.data>>)
  IN  /\ MayCall
      /\ CASE options.storage = "localStorage" ->
                LET stored == Lookup(localStorage, key)
                IN  /\ IF ~host.localStorage
                       THEN returned' = Absent("skipped") /\ UNCHANGED localStorage
                       ELSE IF fault \/ (stored # <<>> /\ stored[1].corrupt)
                       THEN returned' = Absent("caught") /\ UNCHANGED localStorage
                       ELSE IF stored = <<>>
                       THEN returned' = Absent("miss") /\ UNCHANGED localStorage
                       ELSE IF IsFresh(stored[1].entry, now)
                       THEN returned' = Found(stored[1].entry) /\ UNCHANGED localStorage
                       ELSE /\ returned' = Absent("expired")
                            /\ localStorage' = Without(localStorage, key)
                    /\ UNCHANGED <<memoryCache, objectStore>>
           [] options.storage = "indexedDB" ->
                LET result == Lookup(objectStore, key)
                IN  /\ IF db # "open"
                       THEN returned' = Absent("skipped") /\ UNCHANGED objectStore
                       ELSE IF fault
                       THEN returned' = Absent("caught") /\ UNCHANGED objectStore
                       ELSE IF result = <<>>
                       THEN returned' = Absent("miss") /\ UNCHANGED objectStore
                       ELSE IF IsFresh(result[1], now)
                       THEN returned' = Found(result[1]) /\ UNCHANGED objectStore
                       ELSE /\ returned' = Absent("expired")
                            /\ objectStore' = Without(objectStore, key)
                    /\ UNCHANGED <<memoryCache, localStorage>>
           [] OTHER ->
                LET entry == Lookup(memoryCache, key)
                IN  /\ IF entry = <<>>
                       THEN returned' = Absent("miss") /\ UNCHANGED memoryCache
                       ELSE IF IsFresh(entry[1], now)
                       THEN returned' = Found(entry[1]) /\ UNCHANGED memoryCache
                       ELSE /\ returned' = Absent("expired")
                            /\ memoryCache' = Without(memoryCache, key)
                    /\ UNCHANGED <<localStorage, objectStore>>
      /\ UNCHANGED <<options, host, db>>
      /\ UNCHANGED <<consVars, limVars, aggVars, valVars, geckoVars>>

\* set(key, data, ttl).  fault: the backend write throws (quota, a failed
\* transaction or request); the entry then goes to the in-memory Map.
Set(key, data, ttl, fault) ==
  LET entry == NewEntry(key, data, ttl, clock)
      Did(how) == Settled("set", key, <<data>>, how, <<>>)
  IN  /\ MayCall
      /\ CASE options.storage = "localStorage" ->
                /\ IF ~host.localStorage
                   THEN returned' = Did("skipped") /\ UNCHANGED <<localStorage, memoryCache>>
                   ELSE IF fault
                        THEN /\ returned' = Did("caught")
                             /\ memoryCache' = MapSet(memoryCache, entry)
                             /\ UNCHANGED localStorage
                        ELSE /\ returned' = Did("stored")
                             /\ LET written == MapSet(localStorage, Item(entry))
                                IN  localStorage' =
                                      IF Len(written) > options.maxSize
                                      THEN EvictOldest(written) ELSE written
                             /\ UNCHANGED memoryCache
                /\ UNCHANGED objectStore
           [] options.storage = "indexedDB" ->
                /\ IF db # "open"
                   THEN returned' = Did("skipped") /\ UNCHANGED <<objectStore, memoryCache>>
                   ELSE IF fault
                        THEN /\ returned' = Did("caught")
                             /\ memoryCache' = MapSet(memoryCache, entry)
                             /\ UNCHANGED objectStore
                        ELSE /\ returned' = Did("stored")
                             /\ objectStore' = MapSet(objectStore, entry)
                             /\ UNCHANGED memoryCache
                /\ UNCHANGED localStorage
           [] OTHER ->
                /\ returned' = Did("stored")
                /\ memoryCache' = CacheSet(memoryCache, key, data, clock, entry.ttl,
                                           options.maxSize)
                /\ UNCHANGED <<localStorage, objectStore>>
      /\ UNCHANGED <<options, host, db>>
      /\ UNCHANGED <<consVars, limVars, aggVars, valVars, geckoVars>>

\* delete(key).  fault: the backend call throws; only the indexedDB branch
\* has a try/catch.
Delete(key, fault) ==
  /\ MayCall
  /\ CASE options.storage = "localStorage" ->
            /\ IF ~host.localStorage
               THEN /\ returned' = Settled("delete", key, <<>>, "skipped", <<>>)
                    /\ UNCHANGED localStorage
               ELSE IF fault
                    THEN /\ returned' = Settled("delete", key, <<>>, "threw", <<>>)
                         /\ UNCHANGED localStorage
                    ELSE /\ returned' = Settled("delete", key, <<>>, "removed", <<>>)
                         /\ localStorage' = Without(localStorage, key)
            /\ UNCHANGED <<memoryCache, objectStore>>
       [] options.storage = "indexedDB" ->
            /\ objectStore' = IF db = "open" /\ ~fault
                              THEN Without(objectStore, key) ELSE objectStore
            /\ returned' = Settled("delete", key, <<>>,
                                   IF db # "open" THEN "skipped"
                                   ELSE IF fault THEN "caught" ELSE "removed", <<>>)
            /\ UNCHANGED <<memoryCache, localStorage>>
       [] OTHER ->
            /\ memoryCache' = Without(memoryCache, key)
            /\ returned' = Settled("delete", key, <<>>, "removed", <<>>)
            /\ UNCHANGED <<localStorage, objectStore>>
  /\ UNCHANGED <<options, host, db>>
  /\ UNCHANGED <<consVars, limVars, aggVars, valVars, geckoVars>>

\* clear().  fault: the backend call throws; only the indexedDB branch has a
\* try/catch.
Clear(fault) ==
  /\ MayCall
  /\ CASE options.storage = "localStorage" ->
            /\ IF ~host.localStorage
               THEN /\ returned' = Settled("clear", "none", <<>>, "skipped", <<>>)
                    /\ UNCHANGED localStorage
               ELSE IF fault
                    THEN /\ returned' = Settled("clear", "none", <<>>, "threw", <<>>)
                         /\ UNCHANGED localStorage
                    ELSE /\ returned' = Settled("clear", "none", <<>>, "removed", <<>>)
                         /\ localStorage' = <<>>
            /\ UNCHANGED <<memoryCache, objectStore>>
       [] options.storage = "indexedDB" ->
            /\ objectStore' = IF db = "open" /\ ~fault THEN <<>> ELSE objectStore
            /\ returned' = Settled("clear", "none", <<>>,
                                   IF db # "open" THEN "skipped"
                                   ELSE IF fault THEN "caught" ELSE "removed", <<>>)
            /\ UNCHANGED <<memoryCache, localStorage>>
       [] OTHER ->
            /\ memoryCache' = <<>>
            /\ returned' = Settled("clear", "none", <<>>, "removed", <<>>)
            /\ UNCHANGED <<localStorage, objectStore>>
  /\ UNCHANGED <<options, host, db>>
  /\ UNCHANGED <<consVars, limVars, aggVars, valVars, geckoVars>>

\* Time passes.
CacheTick ==
  /\ clock < MaxCacheTime
  /\ Tick

CacheNext ==
  \/ CacheTick
  \/ \E ok \in BOOLEAN : OpenSettles(ok)
  \/ \E key \in KeysUsed : Corrupt(key)
  \/ \E key \in KeysUsed, fault \in BOOLEAN : Get(key, fault)
  \/ \E key \in KeysUsed, data \in host.values, ttl \in host.ttls,
        fault \in BOOLEAN : Set(key, data, ttl, fault)
  \/ \E key \in KeysUsed, fault \in BOOLEAN : Delete(key, fault)
  \/ \E fault \in BOOLEAN : Clear(fault)

SpecCache == CacheInit /\ [][CacheNext]_vars


\* ---------------------------------------------------------------------
\* Claims about the EdgeCache.
\* ---------------------------------------------------------------------

\* The entry the selected backend holds under key in readable form, if any.
BackendEntry(key) ==
  CASE options.storage = "localStorage" ->
         LET stored == Lookup(localStorage, key)
         IN  IF stored = <<>> \/ stored[1].corrupt THEN <<>>
             ELSE <<stored[1].entry>>
    [] options.storage = "indexedDB" -> Lookup(objectStore, key)
    [] OTHER -> Lookup(memoryCache, key)

\* The keys of CacheKeyNames.
CacheKeys == {CacheKeyNames[i] : i \in DOMAIN CacheKeyNames}

\* An operation on key settles in this step.
Settles(op, key) ==
  /\ returned'.turn = returned.turn + 1
  /\ returned'.op = op
  /\ returned'.key = key

\* The backend answered the read: it was available and nothing threw.
Served(how) == how \in {"hit", "miss", "expired"}

\* C13: a get that the backend serves returns the stored value exactly when
\* now - timestamp < ttl, the entry being the one the latest set of the key
\* stored; at now - timestamp >= ttl it returns absent and the entry is gone
\* from the backend after that read; no get returns a value that is not
\* stored and fresh; the passing of time alone removes nothing; and a set the
\* backend stores leaves the entry of that set, stamped now, under the key.
C13_TtlExpiry ==
  [][\A key \in CacheKeys :
       LET before == BackendEntry(key)
           after == BackendEntry(key)'
           fresh == before # <<>> /\ clock - before[1].timestamp < before[1].ttl
       IN  /\ (Settles("get", key) /\ Served(returned'.how)) =>
                 /\ returned'.value = IF fresh THEN <<before[1].data>> ELSE <<>>
                 /\ after = IF fresh THEN before ELSE <<>>
           /\ (Settles("get", key) /\ returned'.value # <<>>) =>
                 fresh /\ returned'.value = <<before[1].data>>
           /\ clock' # clock =>
                 UNCHANGED <<memoryCache, localStorage, objectStore>>
           /\ (Settles("set", key) /\ returned'.how = "stored") =>
                 /\ after # <<>>
                 /\ after[1].data = returned'.data[1]
                 /\ after[1].timestamp = clock
                 /\ after[1].ttl > 0]_vars

\* A read found the entry expired, returned absent and removed it.
C13_Witness ==
  /\ returned.op = "get"
  /\ returned.how = "expired"
  /\ returned.value = <<>>
  /\ BackendEntry(returned.key) = <<>>
  /\ returned.turn >= 2


\* C14: no operation of the cache rejects, whatever the backend does: every
\* get, set, delete and clear that has settled has resolved.
C14_CacheNeverRejects == returned.outcome # "rejected"

\* C15: a get of a key made right after a set of that key which the
\* persistent backend did not take (its write threw, or the backend is
\* unavailable) returns the value that was set.
C15_FallbackServes ==
  [][\A key \in CacheKeys :
       (/\ returned.op = "set"
        /\ returned.key = key
        /\ returned.how \in {"caught", "skipped"}
        /\ Settles("get", key)
        /\ clock = returned.at) =>
          returned'.value = returned.data]_vars

\* The keys of a store, in insertion order.
KeySeq(store) == [i \in DOMAIN store |-> store[i].key]

\* C16: on the in-memory backend the Map never holds more than maxSize
\* entries; a set of a key that is present keeps the insertion order, a set
\* of a new key appends it and, when the Map was full, removes exactly the
\* first inserted entry; a get changes the order of no entry (it can only
\* remove the expired entry it read).
C16_MemoryEviction ==
  [][options.storage = "memory" =>
       LET order == KeySeq(memoryCache)
           full == Len(memoryCache) >= options.maxSize
       IN  /\ Len(memoryCache') <= options.maxSize
           /\ \A key \in CacheKeys :
                /\ Settles("set", key) =>
                     KeySeq(memoryCache') =
                       IF Lookup(memoryCache, key) # <<>> THEN order
                       ELSE IF full THEN Append(Tail(order), key)
                       ELSE Append(order, key)
                /\ Settles("get", key) =>
                     KeySeq(memoryCache') =
                       IF returned'.how = "expired"
                       THEN KeySeq(Without(memoryCache, key)) ELSE order]_vars

\* The Map was full, its first entry was read, and a set of a third key has
\* since evicted that first entry.
C16_Witness ==
  /\ options.storage = "memory"
  /\ options.maxSize = 2
  /\ returned.op = "set"
  /\ returned.key = "c"
  /\ KeySeq(memoryCache) = <<"b", "c">>
  /\ returned.turn >= 4


\* ---------------------------------------------------------------------
\* The AssetValuator: getPrice, convert and clearCache over its own cache
\* of prices and a PriceProvider.  One minute is two time units.
\* ---------------------------------------------------------------------

MaxValTime == 2

\* The places of the getPrice and convert calls: the caller has at most two
\* calls in flight, and a call that has settled leaves its place to a later
\* one.
OpIds == {1, 2}

\* The arguments of getPrice: base, and quote ('USD' when omitted).
PriceRequests == {<<"btc", "USD">>, <<"BTC", "USD">>}

\* The options of convert, as from, to and amount (<<>> for an omitted
\* amount): the same currency in two spellings, to USD, from USD, and
\* neither side USD.
Conversions ==
  { <<"btc", "BTC", <<3>> >>, <<"btc", "usd", <<>> >>,
    <<"USD", "btc", <<3>> >>, <<"btc", "ETH", <<3>> >> }

\* The prices provider.fetchPrice resolves with: bitcoin's price moves, the
\* other's does not.
FacadePrices(symbol) == IF ToUpperCase(symbol) = "BTC" THEN {2, 4} ELSE {4}

\* provider.fetchPrice(symbol, currency) resolves with a price, or rejects
\* (no price).
FetchReplies(symbol) == {<<price>> : price \in FacadePrices(symbol)} \cup {<<>>}

\* The arguments of getPrices: symbols and quote.
BatchPriceRequests == {<< <<"btc", "ETH">>, "usd" >>}

\* provider.fetchMultiplePrices resolves with quotes (none, one symbol
\* dropped, or both in another order than requested), or rejects.
BatchPriceReplies ==
  { [ok |-> FALSE, prices |-> <<>>],
    [ok |-> TRUE, prices |-> <<>>],
    [ok |-> TRUE, prices |-> <<[symbol |-> "BTC", price |-> 4]>>],
    [ok |-> TRUE, prices |-> <<[symbol |-> "ETH", price |-> 4],
                               [symbol |-> "BTC", price |-> 2]>>] }

\* The arguments of setCacheTimeout: half a minute, one minute, and a minute
\* and a half.
CacheTimeouts == {1, 2, 3}

\* getCacheKey(base, quote).
GetCacheKey(base, quote) == ToUpperCase(base) \o "_" \o ToUpperCase(quote)

\* const { amount = 1 } = options.
AmountOf(argument) == IF argument = <<>> THEN 1 ELSE argument[1]

\* this.cache.get(cacheKey).
FacadeGet(map, key) == IF key \in DOMAIN map THEN <<map[key]>> ELSE <<>>

\* this.cache.set(cacheKey, {price, timestamp}).
FacadeSet(map, key, price, now) ==
  [k \in DOMAIN map \cup {key} |->
     IF k = key THEN [price |-> price, timestamp |-> now] ELSE map[k]]

\* A clearCache that leaves the Map as it is.
NotCleared(map) == map

\* this.cache.clear().
Cleared(map) == <<>>

\* A hit test that serves an entry as old as the timeout.
CacheHitInclusive(cached, now) == now - cached.timestamp <= cacheTimeout

\* A hit test against the timeout the valuator was constructed with.
CacheHitAtConstruction(cached, now) == now - cached.timestamp < 2

\* Date.now() - cached.timestamp < this.cacheTimeout.
CacheHit(cached, now) == now - cached.timestamp < cacheTimeout

\* A same-currency test that compares the spellings as given.
SameCurrencyExact(from, to) == from = to

\* from.toUpperCase() === to.toUpperCase().
SameCurrency(from, to) == ToUpperCase(from) = ToUpperCase(to)

\* The lookups convert makes, in order: none for the same currency, one when
\* either side is USD, else two, each against 'USD'.
Lookups(from, to) ==
  IF SameCurrency(from, to) THEN <<>>
  ELSE IF ToUpperCase(to) = "USD" THEN << <<from, "USD">> >>
  ELSE IF ToUpperCase(from) = "USD" THEN << <<to, "USD">> >>
  ELSE << <<from, "USD">>, <<to, "USD">> >>

\* A cross rate taken the wrong way round.
CrossRateInverted(fromPriceInUSD, toPriceInUSD, amount) ==
  Frac(toPriceInUSD * amount, fromPriceInUSD)

\* (fromPriceInUSD / toPriceInUSD) * amount, as an exact fraction.
CrossRate(fromPriceInUSD, toPriceInUSD, amount) ==
  Frac(fromPriceInUSD * amount, toPriceInUSD)

\* What convert returns from the prices it looked up.
Converted(from, to, amount, got) ==
  IF SameCurrency(from, to) THEN Frac(amount, 1)
  ELSE IF ToUpperCase(to) = "USD" THEN Frac(got[1] * amount, 1)
  ELSE IF ToUpperCase(from) = "USD" THEN Frac(amount, got[1])
  ELSE CrossRate(got[1], got[2], amount)

\* A call that has not been made.  amount: the amount passed, if any;
\* symbols: the symbols passed to getPrices; todo: the lookups still to
\* make; looked: the (symbol, currency) pairs passed to
\* getCachedOrFetchPrice; got: the prices they returned, or the quotes the
\* batch call returned; queries: the calls of provider.fetchPrice; batches:
\* the calls of provider.fetchMultiplePrices; wrote: the calls of
\* this.cache.set; cold: the call is a getPrice whose key clearCache had
\* removed.
IdleOp ==
  [kind |-> "none", pc |-> "idle", from |-> "", to |-> "", amount |-> <<>>,
   symbols |-> <<>>, todo |-> <<>>, looked |-> <<>>, got |-> <<>>,
   queries |-> 0, batches |-> 0, wrote |-> 0, cold |-> FALSE,
   outcome |-> "none", result |-> <<>>]

\* What the call resolves with: getPrice an AssetPrice, convert a number.
ResultOf(rec, got) ==
  IF rec.kind = "getPrice"
  THEN [base |-> ToUpperCase(rec.from), quote |-> ToUpperCase(rec.to),
        price |-> got[1]]
  ELSE Converted(rec.from, rec.to, AmountOf(rec.amount), got)

\* A lookup returned price: the call goes on to its next lookup, or resolves.
Obtained(rec, price) ==
  LET got == Append(rec.got, price)
      rest == Tail(rec.todo)
  IN  IF rest = <<>>
      THEN [rec EXCEPT !.pc = "done", !.outcome = "ok", !.got = got,
                       !.todo = <<>>, !.result = <<ResultOf(rec, got)>>]
      ELSE [rec EXCEPT !.pc = "lookup", !.got = got, !.todo = rest]

\* getCachedOrFetchPrice for the call's next lookup, to its return (a hit)
\* or to its await of provider.fetchPrice.  Without a lookup to make the
\* call resolves at once.
GetCachedOrFetchPrice(rec) ==
  IF rec.todo = <<>>
  THEN [rec EXCEPT !.pc = "done", !.outcome = "ok",
                   !.result = <<ResultOf(rec, <<>>)>>]
  ELSE LET pair == Head(rec.todo)
           cached == FacadeGet(facadeCache, GetCacheKey(pair[1], pair[2]))
           asked == [rec EXCEPT !.looked = Append(@, pair)]
       IN  IF cached # <<>> /\ CacheHit(cached[1], clock)
           THEN Obtained(asked, cached[1].price)
           ELSE [asked EXCEPT !.pc = "fetching", !.queries = @ + 1]

\* A rejection of the provider that is answered with an empty result.
RejectedQuietly(rec) ==
  [rec EXCEPT !.pc = "done", !.outcome = "ok", !.todo = <<>>]

\* The provider rejected: the call rejects with the provider's error.
Rejected(rec) ==
  [rec EXCEPT !.pc = "done", !.outcome = "rejected", !.todo = <<>>]

RECURSIVE FacadeSetAll(_, _, _, _)
\* A loop that caches only the first quote of the batch.
FacadeSetFirst(map, prices, quote, now) ==
  IF prices = <<>> THEN map
  ELSE FacadeSet(map, GetCacheKey(prices[1].symbol, quote), prices[1].price, now)

\* getPrices' loop over the provider's quotes: each is cached under
\* getCacheKey(priceData.symbol, quote).
FacadeSetAll(map, prices, quote, now) ==
  IF prices = <<>> THEN map
  ELSE FacadeSetAll(
         FacadeSet(map, GetCacheKey(prices[1].symbol, quote), prices[1].price, now),
         Tail(prices), quote, now)

\* prices.map(p => ({base: p.symbol, quote: quote.toUpperCase(), price})).
AssetPrices(prices, quote) ==
  [i \in DOMAIN prices |->
     [base |-> prices[i].symbol, quote |-> ToUpperCase(quote),
      price |-> prices[i].price]]

\* new AssetValuator(provider): an empty cache, a timeout of one minute.
ValInit ==
  /\ facadeCache = <<>>
  /\ cacheTimeout = 2
  /\ ops = [c \in OpIds |-> IdleOp]
  /\ clearedKeys = {}
  /\ ConsIdle
  /\ LimIdle
  /\ AggIdle
  /\ CacheIdle
  /\ GeckoIdle

\* Place c is the one the next call takes: the first that holds no call in
\* flight.
NextOp(c) ==
  /\ ops[c].pc \in {"idle", "done"}
  /\ \A d \in OpIds : d < c => ops[d].pc \notin {"idle", "done"}

\* No call is in flight.  The caller makes a convert or a getPrices only
\* then; a getPrice it also makes while another call is in flight.
Alone == \A d \in OpIds : ops[d].pc \in {"idle", "done"}

\* getPrice(base, quote), to its first await or its return.
GetPrice(c, base, quote) ==
  /\ NextOp(c)
  /\ ops' = [ops EXCEPT ![c] =
       GetCachedOrFetchPrice(
         [IdleOp EXCEPT !.kind = "getPrice", !.from = base, !.to = quote,
                        !.todo = << <<base, quote>> >>,
                        !.cold = GetCacheKey(base, quote) \in clearedKeys])]
  /\ UNCHANGED <<facadeCache, cacheTimeout, clearedKeys>>
  /\ UNCHANGED <<consVars, limVars, aggVars, cacheVars, geckoVars>>

\* convert({from, to, amount}), to its first await or its return.
Convert(c, from, to, argument) ==
  /\ NextOp(c)
  /\ Alone
  /\ ops' = [ops EXCEPT ![c] =
       GetCachedOrFetchPrice(
         [IdleOp EXCEPT !.kind = "convert", !.from = from, !.to = to,
                        !.amount = argument,
                        !.todo = Lookups(from, to)])]
  /\ UNCHANGED <<facadeCache, cacheTimeout, clearedKeys>>
  /\ UNCHANGED <<consVars, limVars, aggVars, cacheVars, geckoVars>>

\* convert goes on to its second lookup.
SecondLookup(c) ==
  /\ ops[c].pc = "lookup"
  /\ ops' = [ops EXCEPT ![c] = GetCachedOrFetchPrice(ops[c])]
  /\ UNCHANGED <<facadeCache, cacheTimeout, clearedKeys>>
  /\ UNCHANGED <<consVars, limVars, aggVars, cacheVars, geckoVars>>

\* provider.fetchPrice settles for call c: the price is cached under the
\* key with the time of the reply and returned; a rejection rejects the
\* call and leaves the cache alone.
FetchPriceSettles(c, reply) ==
  /\ ops[c].pc = "fetching"
  /\ LET rec == ops[c]
         pair == rec.looked[Len(rec.looked)]
         key == GetCacheKey(pair[1], pair[2])
     IN  /\ reply \in FetchReplies(pair[1])
         /\ IF reply = <<>>
            THEN /\ ops' = [ops EXCEPT ![c] = Rejected(rec)]
                 /\ UNCHANGED <<facadeCache, clearedKeys>>
            ELSE /\ facadeCache' = FacadeSet(facadeCache, key, reply[1], clock)
                 /\ clearedKeys' = clearedKeys \ {key}
                 /\ ops' = [ops EXCEPT ![c] =
                      Obtained([rec EXCEPT !.wrote = @ + 1], reply[1])]
  /\ UNCHANGED cacheTimeout
  /\ UNCHANGED <<consVars, limVars, aggVars, cacheVars, geckoVars>>

\* getPrices(symbols, quote), to its await of provider.fetchMultiplePrices.
GetPrices(c, symbols, quote) ==
  /\ NextOp(c)
  /\ Alone
  /\ ops' = [ops EXCEPT ![c] =
       [IdleOp EXCEPT !.kind = "getPrices", !.symbols = symbols, !.to = quote,
                      !.pc = "batch", !.batches = 1]]
  /\ UNCHANGED <<facadeCache, cacheTimeout, clearedKeys>>
  /\ UNCHANGED <<consVars, limVars, aggVars, cacheVars, geckoVars>>

\* provider.fetchMultiplePrices settles for call c: every quote is cached
\* with the time of the reply and the quotes are returned in the provider's
\* order; a rejection rejects the call and leaves the cache alone.
FetchMultiplePricesSettles(c, reply) ==
  /\ ops[c].pc = "batch"
  /\ LET rec == ops[c]
         prices == reply.prices
         keys == {GetCacheKey(prices[i].symbol, rec.to) : i \in DOMAIN prices}
     IN  IF ~reply.ok
         THEN /\ ops' = [ops EXCEPT ![c] = Rejected(rec)]
              /\ UNCHANGED <<facadeCache, clearedKeys>>
         ELSE /\ facadeCache' = FacadeSetAll(facadeCache, prices, rec.to, clock)
              /\ clearedKeys' = clearedKeys \ keys
              /\ ops' = [ops EXCEPT ![c] =
                   [rec EXCEPT !.pc = "done", !.outcome = "ok", !.got = prices,
                               !.wrote = Len(prices),
                               !.result = <<AssetPrices(prices, rec.to)>>]]
  /\ UNCHANGED cacheTimeout
  /\ UNCHANGED <<consVars, limVars, aggVars, cacheVars, geckoVars>>

\* clearCache().
ClearCache ==
  /\ facadeCache # <<>>
  /\ facadeCache' = Cleared(facadeCache)
  /\ clearedKeys' = clearedKeys \cup DOMAIN facadeCache
  /\ UNCHANGED <<cacheTimeout, ops>>
  /\ UNCHANGED <<consVars, limVars, aggVars, cacheVars, geckoVars>>

\* setCacheTimeout(milliseconds), with another timeout than the one in force.
SetCacheTimeout(milliseconds) ==
  /\ milliseconds # cacheTimeout
  /\ cacheTimeout' = milliseconds
  /\ UNCHANGED <<facadeCache, ops, clearedKeys>>
  /\ UNCHANGED <<consVars, limVars, aggVars, cacheVars, geckoVars>>

\* Time passes.
ValTick ==
  /\ clock < MaxValTime
  /\ Tick

ValNext ==
  \/ ValTick
  \/ \E c \in OpIds, request \in PriceRequests : GetPrice(c, request[1], request[2])
  \/ \E c \in OpIds, conversion \in Conversions :
       Convert(c, conversion[1], conversion[2], conversion[3])
  \/ \E c \in OpIds : SecondLookup(c)
  \/ \E c \in OpIds, reply \in FetchReplies("BTC") \cup FetchReplies("ETH") :
       FetchPriceSettles(c, reply)
  \/ \E c \in OpIds, request \in BatchPriceRequests :
       GetPrices(c, request[1], request[2])
  \/ \E c \in OpIds, reply \in BatchPriceReplies : FetchMultiplePricesSettles(c, reply)
  \/ ClearCache

SpecValuator == ValInit /\ [][ValNext]_vars

\* The valuator whose caller also changes the cache timeout: getPrice,
\* clearCache and setCacheTimeout.
TimeoutNext ==
  \/ ValTick
  \/ \E c \in OpIds, request \in PriceRequests : GetPrice(c, request[1], request[2])
  \/ \E c \in OpIds, reply \in FetchReplies("BTC") : FetchPriceSettles(c, reply)
  \/ ClearCache
  \/ \E milliseconds \in CacheTimeouts : SetCacheTimeout(milliseconds)

SpecTimeout == ValInit /\ [][TimeoutNext]_vars


\* ---------------------------------------------------------------------
\* Claims about the AssetValuator.
\* ---------------------------------------------------------------------

\* A call of the given kind is made in place c in this step.
Begins(c, kind) ==
  /\ ops[c].pc \in {"idle", "done"}
  /\ ops'[c] # ops[c]
  /\ ops'[c].kind = kind

\* C17: a getPrice whose key has an entry younger than the timeout resolves
\* with that entry's price without a provider call and leaves the cache as
\* it is; any other getPrice calls provider.fetchPrice, once; and when the
\* provider resolves, the call resolves with the provider's price, which is
\* then the entry of the key, stamped with the time of the reply.
C17_CachedOrFetchedOnce ==
  [][\A c \in OpIds :
       LET now == ops'[c]
           key == GetCacheKey(now.from, now.to)
           cached == FacadeGet(facadeCache, key)
           young == cached # <<>> /\ clock - cached[1].timestamp < cacheTimeout
       IN  /\ Begins(c, "getPrice") =>
                /\ UNCHANGED facadeCache
                /\ IF young
                   THEN /\ now.pc = "done"
                        /\ now.outcome = "ok"
                        /\ now.queries = 0
                        /\ now.result[1].price = cached[1].price
                   ELSE /\ now.pc = "fetching"
                        /\ now.queries = 1
           /\ (/\ ops[c].kind = "getPrice"
               /\ ops[c].pc = "fetching"
               /\ now.pc = "done"
               /\ now.outcome = "ok") =>
                /\ now.queries = 1
                /\ key \in DOMAIN facadeCache'
                /\ facadeCache'[key] =
                     [price |-> now.result[1].price, timestamp |-> clock]]_vars

\* A getPrice was served from an entry one time unit old, below the timeout.
C17_Witness ==
  \E c \in OpIds :
    LET key == GetCacheKey(ops[c].from, ops[c].to)
    IN  /\ ops[c].kind = "getPrice"
        /\ ops[c].pc = "done"
        /\ ops[c].outcome = "ok"
        /\ ops[c].queries = 0
        /\ key \in DOMAIN facadeCache
        /\ clock - facadeCache[key].timestamp = 1
        /\ ops[c].result[1].price = facadeCache[key].price

\* C18: clearCache empties the cache, and a getPrice for a key that
\* clearCache removed, made before the key is cached again, calls the
\* provider and does not resolve from the cache.
C18_ClearedNeverServed ==
  [][/\ (clearedKeys' # clearedKeys /\ clearedKeys \subseteq clearedKeys') =>
          facadeCache' = <<>>
     /\ \A c \in OpIds :
          (/\ Begins(c, "getPrice")
           /\ GetCacheKey(ops'[c].from, ops'[c].to) \in clearedKeys) =>
             /\ ops'[c].pc = "fetching"
             /\ ops'[c].queries = 1]_vars

\* A getPrice for a cleared key has asked the provider and resolved.
C18_Witness ==
  \E c \in OpIds :
    /\ ops[c].kind = "getPrice"
    /\ ops[c].cold
    /\ ops[c].pc = "done"
    /\ ops[c].outcome = "ok"
    /\ ops[c].queries = 1

\* C19: a convert whose from and to are equal ignoring case resolves with
\* the amount, makes no lookup and no provider call, and leaves the cache
\* as it is.
C19_SameCurrencyIsIdentity ==
  [][\A c \in OpIds :
       (/\ Begins(c, "convert")
        /\ ToUpperCase(ops'[c].from) = ToUpperCase(ops'[c].to)) =>
          /\ ops'[c].pc = "done"
          /\ ops'[c].outcome = "ok"
          /\ ops'[c].result =
               <<Frac(IF ops'[c].amount = <<>> THEN 1 ELSE ops'[c].amount[1], 1)>>
          /\ ops'[c].looked = <<>>
          /\ ops'[c].queries = 0
          /\ UNCHANGED facadeCache]_vars

\* A convert between two spellings of one currency has resolved.
C19_Witness ==
  \E c \in OpIds :
    /\ ops[c].kind = "convert"
    /\ ops[c].from # ops[c].to
    /\ ToUpperCase(ops[c].from) = ToUpperCase(ops[c].to)
    /\ ops[c].pc = "done"
    /\ ops[c].result = <<Frac(3, 1)>>

\* C20: a resolved convert between different currencies has looked up, in
\* this order, (from, USD) alone when to is USD, (to, USD) alone when from
\* is USD, and otherwise (from, USD) and (to, USD); it returns price x
\* amount, amount / price and (price of from / price of to) x amount
\* respectively, the amount being 1 when omitted.
C20_ConvertRoutesThroughUsd ==
  \A c \in OpIds :
    LET rec == ops[c]
        amount == IF rec.amount = <<>> THEN 1 ELSE rec.amount[1]
    IN  (/\ rec.kind = "convert"
         /\ rec.pc = "done"
         /\ rec.outcome = "ok"
         /\ ToUpperCase(rec.from) # ToUpperCase(rec.to)) =>
           /\ Len(rec.got) = Len(rec.looked)
           /\ CASE ToUpperCase(rec.to) = "USD" ->
                     /\ rec.looked = << <<rec.from, "USD">> >>
                     /\ FracEq(rec.result[1], Frac(rec.got[1] * amount, 1))
                [] ToUpperCase(rec.from) = "USD" ->
                     /\ rec.looked = << <<rec.to, "USD">> >>
                     /\ FracEq(rec.result[1], Frac(amount, rec.got[1]))
                [] OTHER ->
                     /\ rec.looked = << <<rec.from, "USD">>, <<rec.to, "USD">> >>
                     /\ FracEq(rec.result[1],
                               Frac(rec.got[1] * amount, rec.got[2]))

\* A convert between two currencies other than USD, priced differently, has
\* resolved.
C20_Witness ==
  \E c \in OpIds :
    /\ ops[c].kind = "convert"
    /\ ops[c].pc = "done"
    /\ ops[c].outcome = "ok"
    /\ Len(ops[c].looked) = 2
    /\ ops[c].got[1] # ops[c].got[2]


\* The cache keys of the quotes of a batch.
KeysOf(prices, quote) ==
  {GetCacheKey(prices[i].symbol, quote) : i \in DOMAIN prices}

\* C21: getPrices calls provider.fetchMultiplePrices whatever the cache
\* holds and changes nothing before the reply; when the provider resolves,
\* the call returns one result per quote in the provider's order, every
\* quote is the entry of its (SYMBOL, QUOTE) key stamped with the time of the
\* reply and the other entries are as before; a getPrice made next for such
\* a key while the entry is younger than the timeout resolves without a
\* provider call.
C21_BatchDelegatesAndCaches ==
  [][\A c \in OpIds :
       LET now == ops'[c]
           prices == now.got
           quote == ops[c].to
       IN  /\ Begins(c, "getPrices") =>
                /\ now.pc = "batch"
                /\ now.batches = 1
                /\ UNCHANGED facadeCache
           /\ (ops[c].pc = "batch" /\ now.outcome = "ok") =>
                /\ now.batches = 1
                /\ Len(now.result[1]) = Len(prices)
                /\ \A i \in DOMAIN prices :
                     /\ now.result[1][i].base = prices[i].symbol
                     /\ now.result[1][i].price = prices[i].price
                     /\ now.result[1][i].quote = ToUpperCase(quote)
                     /\ LET key == GetCacheKey(prices[i].symbol, quote)
                            last == CHOOSE j \in DOMAIN prices :
                                      /\ GetCacheKey(prices[j].symbol, quote) = key
                                      /\ \A k \in DOMAIN prices :
                                           GetCacheKey(prices[k].symbol, quote) = key
                                             => k <= j
                        IN  /\ key \in DOMAIN facadeCache'
                            /\ facadeCache'[key] =
                                 [price |-> prices[last].price, timestamp |-> clock]
                /\ DOMAIN facadeCache' = DOMAIN facadeCache \cup KeysOf(prices, quote)
                /\ \A key \in DOMAIN facadeCache \ KeysOf(prices, quote) :
                     facadeCache'[key] = facadeCache[key]
           /\ (/\ Begins(c, "getPrice")
               /\ ops[c].kind = "getPrices"
               /\ ops[c].outcome = "ok"
               /\ GetCacheKey(now.from, now.to) \in KeysOf(ops[c].got, ops[c].to)
               /\ GetCacheKey(now.from, now.to) \in DOMAIN facadeCache
               /\ clock - facadeCache[GetCacheKey(now.from, now.to)].timestamp
                    < cacheTimeout) =>
                /\ now.pc = "done"
                /\ now.queries = 0]_vars

\* A getPrices has returned two quotes in the provider's order, which is
\* not the order of the request, and both are cached.
C21_Witness ==
  \E c \in OpIds :
    /\ ops[c].kind = "getPrices"
    /\ ops[c].outcome = "ok"
    /\ Len(ops[c].result[1]) = 2
    /\ ops[c].result[1][1].base = ToUpperCase(ops[c].symbols[2])
    /\ KeysOf(ops[c].got, ops[c].to) \subseteq DOMAIN facadeCache

\* C22 as stated: a call that the provider's rejection has rejected has
\* written nothing to the cache.
C22_FailedCallLeavesCache ==
  \A c \in OpIds : ops[c].outcome = "rejected" => ops[c].wrote = 0

\* C22, amended: the step in which the provider rejects rejects the call
\* with no value and leaves the cache as it is; a call that resolves after
\* awaiting the provider returns a value, for getPrice and convert the
\* price cached in that step; and a rejected call has written nothing,
\* unless it is a convert with two lookups whose first price was fetched
\* and cached before the second lookup failed.
C22_RejectsWithoutSubstitute ==
  [][\A c \in OpIds :
       LET now == ops'[c]
       IN  /\ (ops[c].pc \in {"fetching", "batch"} /\ now.outcome = "rejected") =>
                /\ now.result = <<>>
                /\ UNCHANGED facadeCache
           /\ (ops[c].pc \in {"fetching", "batch"} /\ now.outcome = "ok") =>
                /\ now.result # <<>>
                /\ ops[c].pc = "fetching" =>
                     LET pair == now.looked[Len(now.looked)]
                         key == GetCacheKey(pair[1], pair[2])
                     IN  /\ key \in DOMAIN facadeCache'
                         /\ facadeCache'[key] =
                              [price |-> now.got[Len(now.got)], timestamp |-> clock]
           /\ now.outcome = "rejected" =>
                \/ now.wrote = 0
                \/ /\ now.kind = "convert"
                   /\ Len(Lookups(now.from, now.to)) = 2
                   /\ now.wrote = 1
                   /\ Len(now.got) = 1]_vars

\* A getPrice was rejected although the cache holds an expired entry of
\* its key.
C22_Witness ==
  \E c \in OpIds :
    LET key == GetCacheKey(ops[c].from, ops[c].to)
    IN  /\ ops[c].kind = "getPrice"
        /\ ops[c].outcome = "rejected"
        /\ key \in DOMAIN facadeCache
        /\ clock - facadeCache[key].timestamp >= cacheTimeout

\* ------------------------------------------- claims: the aggregator's paths
\* The window holds as many recent timestamps as it admits.
WindowSaturated ==
  Cardinality({i \in DOMAIN requests : clock - requests[i] < opts.windowMs})
    >= opts.maxRequests

\* C23: a fetchPrice whose cache read found an entry resolves in its next
\* step with that quote, at the time of the read; the step records no
\* timestamp in the limiter's window, changes no retry counter, invokes no
\* operation of the limiter and hears no provider, whether or not the window
\* is saturated.
C23_CacheHitBypassesLimiter ==
  [][\A c \in CallIds :
       (/\ calls[c].kind = "price"
        /\ calls[c].pc = "cacheRead"
        /\ calls[c].got # <<>>
        /\ calls'[c] # calls[c])
       => /\ calls'[c].pc = "done"
          /\ calls'[c].outcome = "ok"
          /\ calls'[c].result = calls[c].got
          /\ calls'[c].replies = <<>>
          /\ calls'[c].invocations = 0
          /\ calls'[c].satWaits = 0
          /\ requests' = requests
          /\ retryCount' = retryCount
          /\ clock' = clock]_vars

\* A fetchPrice was served from the cache while the window was saturated.
C23_Witness ==
  \E c \in CallIds :
    /\ calls[c].kind = "price"
    /\ calls[c].pc = "done"
    /\ calls[c].got # <<>>
    /\ calls[c].result = calls[c].got
    /\ calls[c].invocations = 0
    /\ WindowSaturated

\* ceil(providerCount x consensusThreshold), the threshold in quarters.
QuotesNeeded ==
  CHOOSE n \in 0..agg.providers :
    /\ 4 * n >= agg.providers * agg.thresholdQ
    /\ 4 * (n - 1) < agg.providers * agg.thresholdQ
\* The quotes among the first n replies of the call's round.
QuotesWithin(rec, n) ==
  Cardinality({i \in 1..n : rec.replies[i] = "quote"})

\* C24: in a round of fetchPrice the providers answer one at a time in list
\* order (the next to be asked is the one after those heard); the round
\* goes on after a failure that is caught; it never collects more than
\* ceil(providerCount x consensusThreshold) quotes, it is still running only
\* while fewer have been collected and a provider is left, and once that
\* many have been collected the reply that completed them is the last one
\* of the round.
C24_ProvidersInOrderUntilEnough ==
  \A c \in CallIds :
    LET rec == calls[c]
        heard == Len(rec.replies)
    IN  (rec.kind = "price" /\ rec.replies # <<>>) =>
          /\ heard <= agg.providers
          /\ rec.at = heard + 1
          /\ Len(rec.quotes) = QuotesWithin(rec, heard)
          /\ QuotesWithin(rec, heard) <= QuotesNeeded
          /\ \A n \in 1..(heard - 1) : QuotesWithin(rec, n) < QuotesNeeded
          /\ rec.pc = "running" =>
               /\ heard < agg.providers
               /\ QuotesWithin(rec, heard) < QuotesNeeded
          /\ (rec.pc # "running" /\ rec.replies[heard] = "quote") =>
               \/ heard = agg.providers
               \/ QuotesWithin(rec, heard) = QuotesNeeded
          /\ (rec.pc # "running" /\ rec.replies[heard] # "quote") =>
               heard = agg.providers

\* A round stopped before the last provider, and another went on after a
\* provider failed.
C24_Witness ==
  \E c \in CallIds :
    /\ calls[c].kind = "price"
    /\ calls[c].pc = "done"
    /\ \/ /\ calls[c].replies = <<"quote">>
          /\ agg.providers = 2
          /\ fetches = 1
       \/ /\ calls[c].replies = <<"fail", "quote">>
          /\ fetches = 2

\* The symbols of a list.
SymbolsIn(list) == {list[i] : i \in DOMAIN list}
\* The cache holds the quote under the key of the quote's symbol.
CachedQuote(store, quote) ==
  \E i \in DOMAIN store :
    /\ store[i].key = quote.symbol \o "-usd"
    /\ store[i].data = quote

\* C25: fetchMultiplePrices sorts each requested symbol, by its cache read,
\* into the cached quotes or into the uncached symbols; the providers quote
\* uncached symbols only; the call's operation is invoked once and hears
\* every configured provider, failures included, before it returns; the call
\* returns the cached quotes followed by the newly resolved ones, each of
\* which is in the cache when the call returns.  When no symbol is uncached
\* the call returns the cached quotes without invoking an operation, hearing
\* a provider, or touching the limiter's window or counters.
C25_BatchPartitionsAndCachesEach ==
  [][\A c \in CallIds :
       LET rec == calls[c]
           after == calls'[c]
       IN  after.kind = "batch" =>
             /\ (rec.kind = "batch" /\ rec.pc = "batchRead") =>
                  /\ after.symbols = rec.symbols
                  /\ IF rec.got # <<>>
                     THEN /\ after.hits = rec.hits \o rec.got
                          /\ after.uncached = rec.uncached
                     ELSE /\ after.hits = rec.hits
                          /\ after.uncached = Append(rec.uncached, rec.symbols[rec.at])
                  /\ after.pc = "done" =>
                       /\ after.uncached = <<>>
                       /\ after.outcome = "ok"
                       /\ after.result = after.hits
                       /\ Len(after.hits) = Len(after.symbols)
                       /\ after.replies = <<>>
                       /\ after.invocations = 0
                       /\ requests' = requests
                       /\ retryCount' = retryCount
                       /\ cache' = cache
             /\ after.pc # "batchRead" =>
                  /\ Len(after.hits) + Len(after.uncached) = Len(after.symbols)
                  /\ after.uncached = <<>> => after.pc = "done"
             /\ after.replies # <<>> =>
                  /\ after.uncached # <<>>
                  /\ QuotedSymbols(after)
                       \subseteq {ToUpperCase(s) : s \in SymbolsIn(after.uncached)}
                  /\ Len(after.replies) <= agg.providers
                  /\ after.invocations = 1
             /\ after.pc = "running" => Len(after.replies) < agg.providers
             /\ (after.pc = "done" /\ after.outcome = "ok" /\ after.uncached # <<>>) =>
                  /\ Len(after.replies) = agg.providers
                  /\ after.result = after.hits \o after.fresh
                  /\ {after.fresh[i].symbol : i \in DOMAIN after.fresh}
                       = QuotedSymbols(after)
                  /\ Len(after.fresh) = Cardinality(QuotedSymbols(after))
                  /\ rec.pc = "running" =>
                       \A i \in DOMAIN after.fresh : CachedQuote(cache', after.fresh[i])]_vars

\* A second fetchMultiplePrices found every symbol cached and returned the
\* cached quote with the window saturated.
C25_Witness ==
  \E c \in CallIds :
    /\ calls[c].kind = "batch"
    /\ calls[c].pc = "done"
    /\ calls[c].uncached = <<>>
    /\ calls[c].result = calls[c].hits
    /\ Len(calls[c].hits) = Len(calls[c].symbols)
    /\ calls[c].invocations = 0
    /\ fetches = 2
    /\ WindowSaturated

\* ------------------------------------------------ claims: canonical symbols
\* The aggregator and the valuator side by side: a run is one of the
\* aggregator (the valuator has no call places) or one of the valuator.
QuotesInit == AggInit \/ ValInit
QuotesNext ==
  \/ ops = <<>> /\ AggNext
  \/ ops # <<>> /\ ValNext
SpecQuotes == QuotesInit /\ [][QuotesNext]_vars

\* The tickers in capitals, and the one each requested spelling stands for.
Tickers == {"BTC", "ETH", "T429"}
TickerOf(symbol) ==
  IF symbol \in {"btc", "BTC"} THEN "BTC"
  ELSE IF symbol \in {"eth", "ETH"} THEN "ETH"
  ELSE "T429"

\* C26: every quote in the result of fetchPrice or fetchMultiplePrices,
\* computed in the call or served from the cache, has as its symbol the
\* ticker in capitals of a symbol requested (of the symbol requested, for
\* fetchPrice), and every result of getPrice has as its base the ticker in
\* capitals of the base requested.
C26_SymbolsAreUpperCase ==
  /\ \A c \in CallIds :
       LET rec == calls[c]
       IN  /\ \A i \in DOMAIN rec.result :
                /\ rec.result[i].symbol \in Tickers
                /\ \E j \in DOMAIN rec.symbols :
                     rec.result[i].symbol = TickerOf(rec.symbols[j])
           /\ (rec.kind = "price" /\ rec.result # <<>>) =>
                rec.result[1].symbol = TickerOf(rec.symbols[1])
  /\ \A c \in DOMAIN ops :
       (ops[c].kind = "getPrice" /\ ops[c].outcome = "ok") =>
         /\ ops[c].result[1].base \in Tickers
         /\ ops[c].result[1].base = TickerOf(ops[c].from)

\* fetchPrice("eth") was served the quote of ETH from the cache.
C26_Witness ==
  \E c \in CallIds :
    /\ calls[c].kind = "price"
    /\ calls[c].symbols = <<"eth">>
    /\ calls[c].pc = "done"
    /\ calls[c].got # <<>>
    /\ calls[c].result = calls[c].got
    /\ calls[c].result[1].symbol = "ETH"

\* ---------------------------------------------------------------------
\* CoinGeckoProvider
\* ---------------------------------------------------------------------

\* The symbols asked of the provider: the three stablecoins of its set (one
\* also in lower case), PayPal USD, and bitcoin.
GeckoSymbols == {"USDC", "usdc", "USDT", "DAI", "PYUSD", "BTC"}
\* The currencies asked for.
GeckoCurrencies == {"USD", "usd", "EUR"}
\* The symbol lists handed to the provider's fetchMultiplePrices.
GeckoBatches ==
  { <<"PYUSD", "USDC">>, <<"BTC", "PYUSD">>, <<"BTC", "USDC">>,
    <<"USDC", "USDT", "DAI">>, <<"BTC", "USDC", "ETH", "USDT">>, <<"BTC", "ETH">> }

\* private stablecoins = new Set([...]).
Stablecoins == {"USDC", "USDT", "DAI"}

\* getCoingeckoId: the id mapped to the upper-cased symbol, or else the
\* symbol in lower case.
GetCoingeckoId(symbol) ==
  LET upper == ToUpperCase(symbol)
  IN  CASE upper = "BTC" -> "bitcoin"
        [] upper = "ETH" -> "ethereum"
        [] upper = "USDT" -> "tether"
        [] upper = "USDC" -> "usd-coin"
        [] upper = "DAI" -> "dai"
        [] OTHER -> ToLowerCase(symbol)

\* The price the API quotes for an id, in whatever currency was asked.
ApiPrice(id) == IF id \in {"bitcoin", "ethereum"} THEN 50000 ELSE 2

\* The ids of a request.
IdsOf(symbols) == {GetCoingeckoId(symbols[i]) : i \in DOMAIN symbols}

\* What axios.get does for a request: it rejects, or it resolves with data
\* that prices some of the ids asked for in the currency asked for.
ApiResponses(symbols) ==
  {[ok |-> FALSE, ids |-> {}]}
    \cup {[ok |-> TRUE, ids |-> ids] : ids \in SUBSET IdsOf(symbols)}
\* The responses to any of the requests.
AnyApiResponse ==
  UNION ({ApiResponses(<<symbol>>) : symbol \in GeckoSymbols}
           \cup {ApiResponses(symbols) : symbols \in GeckoBatches})

\* this.stablecoins.has(symbol.toUpperCase()) && currency.toLowerCase() === 'usd'.
IsPegged(symbol, currency) ==
  ToUpperCase(symbol) \in Stablecoins /\ ToLowerCase(currency) = "usd"

\* The PriceData of a symbol (its timestamp, new Date(), is left out).
Quote(symbol, price) == [symbol |-> ToUpperCase(symbol), price |-> price]

\* fetchPrice once axios.get has settled: the price of the id if the
\* response has it; otherwise (request failed, or price missing) the catch
\* block returns 1 for a stablecoin in usd and rethrows for anything else.
FetchPriceResult(symbol, currency, response) ==
  LET id == GetCoingeckoId(symbol)
  IN  IF response.ok /\ id \in response.ids
      THEN [outcome |-> "ok", result |-> <<Quote(symbol, ApiPrice(id))>>]
      ELSE IF IsPegged(symbol, currency)
           THEN [outcome |-> "ok", result |-> <<Quote(symbol, 1)>>]
           ELSE [outcome |-> "rejected", result |-> <<>>]

RECURSIVE PricedOrPegged(_, _, _)
\* The loop over the symbols of a response: the price found, or 1 for a
\* stablecoin in usd whose price is missing, or nothing.
PricedOrPegged(symbols, currency, response) ==
  IF symbols = <<>> THEN <<>>
  ELSE LET symbol == Head(symbols)
           id == GetCoingeckoId(symbol)
           rest == PricedOrPegged(Tail(symbols), currency, response)
       IN  IF id \in response.ids THEN <<Quote(symbol, ApiPrice(id))>> \o rest
           ELSE IF IsPegged(symbol, currency) THEN <<Quote(symbol, 1)>> \o rest
           ELSE rest

RECURSIVE PeggedOnly(_, _)
\* The loop of the catch block: 1 for each stablecoin in usd.
PeggedOnly(symbols, currency) ==
  IF symbols = <<>> THEN <<>>
  ELSE LET rest == PeggedOnly(Tail(symbols), currency)
       IN  IF IsPegged(Head(symbols), currency)
           THEN <<Quote(Head(symbols), 1)>> \o rest
           ELSE rest

\* fetchMultiplePrices once axios.get has settled.
FetchMultiplePricesResult(symbols, currency, response) ==
  IF response.ok
  THEN [outcome |-> "ok", result |-> PricedOrPegged(symbols, currency, response)]
  ELSE LET results == PeggedOnly(symbols, currency)
       IN  IF Len(results) > 0
           THEN [outcome |-> "ok", result |-> results]
           ELSE [outcome |-> "rejected", result |-> <<>>]

\* new CoinGeckoProvider().
GeckoInit ==
  /\ gecko = NoGeckoCall
  /\ ConsIdle
  /\ LimIdle
  /\ AggIdle
  /\ CacheIdle
  /\ ValIdle

\* fetchPrice(symbol, currency), to its await of axios.get.  (The provider
\* keeps nothing between calls: one call is followed at a time.)
GeckoFetchPrice(symbol, currency) ==
  /\ gecko.pc \in {"idle", "done"}
  /\ gecko' = [NoGeckoCall EXCEPT !.pc = "awaiting", !.op = "fetchPrice",
                                  !.symbols = <<symbol>>, !.currency = currency]
  /\ UNCHANGED <<consVars, limVars, aggVars, cacheVars, valVars>>

\* fetchMultiplePrices(symbols, currency), to its await of axios.get.
GeckoFetchMultiplePrices(symbols, currency) ==
  /\ gecko.pc \in {"idle", "done"}
  /\ gecko' = [NoGeckoCall EXCEPT !.pc = "awaiting", !.op = "fetchMultiplePrices",
                                  !.symbols = symbols, !.currency = currency]
  /\ UNCHANGED <<consVars, limVars, aggVars, cacheVars, valVars>>

\* axios.get settles, and the call with it.
AxiosSettles(response) ==
  /\ gecko.pc = "awaiting"
  /\ response \in ApiResponses(gecko.symbols)
  /\ LET ended == IF gecko.op = "fetchPrice"
                  THEN FetchPriceResult(gecko.symbols[1], gecko.currency, response)
                  ELSE FetchMultiplePricesResult(gecko.symbols, gecko.currency, response)
     IN  gecko' = [gecko EXCEPT !.pc = "done", !.response = response,
                                !.outcome = ended.outcome, !.result = ended.result]
  /\ UNCHANGED <<consVars, limVars, aggVars, cacheVars, valVars>>

GeckoNext ==
  \/ \E symbol \in GeckoSymbols, currency \in GeckoCurrencies :
       GeckoFetchPrice(symbol, currency)
  \/ \E symbols \in GeckoBatches, currency \in GeckoCurrencies :
       GeckoFetchMultiplePrices(symbols, currency)
  \/ \E response \in AnyApiResponse : AxiosSettles(response)

SpecGecko == GeckoInit /\ [][GeckoNext]_vars

\* ------------------------------------------------ claims: CoinGeckoProvider
\* The stablecoins of the claims.
PeggedTickers == {"USDC", "USDT", "DAI", "PYUSD"}
\* The request was for a stablecoin in US dollars.
PeggedInUsd(symbol, currency) ==
  ToUpperCase(symbol) \in PeggedTickers /\ currency \in {"USD", "usd"}
\* The symbols of a list that are stablecoins, in the list's order.
PeggedOf(symbols) ==
  LET IsOne(symbol) == ToUpperCase(symbol) \in PeggedTickers
  IN  SelectSeq(symbols, IsOne)
\* The symbols of a list that are priced in the response or are stablecoins
\* asked for in US dollars, in the list's order.
AnsweredOf(symbols, currency, response) ==
  LET IsOne(symbol) ==
        \/ GetCoingeckoId(symbol) \in response.ids
        \/ PeggedInUsd(symbol, currency)
  IN  SelectSeq(symbols, IsOne)

\* C27: a fetchPrice whose API call failed has resolved with price 1 under
\* the upper-case symbol if the symbol is one of USDC, USDT, DAI, PYUSD and
\* the currency is USD, and has rejected otherwise.
C27_StablecoinFallsBackToOne ==
  (gecko.op = "fetchPrice" /\ gecko.pc = "done" /\ ~gecko.response.ok) =>
    IF PeggedInUsd(gecko.symbols[1], gecko.currency)
    THEN /\ gecko.outcome = "ok"
         /\ gecko.result = <<[symbol |-> ToUpperCase(gecko.symbols[1]), price |-> 1]>>
    ELSE gecko.outcome = "rejected"

\* C28: a fetchMultiplePrices whose request failed has rejected if no
\* stablecoin was asked for in USD, and has otherwise resolved with price 1
\* for exactly the stablecoins asked for, in the order asked; one whose
\* request succeeded has resolved with one quote for each symbol that is
\* priced in the response or is a stablecoin asked for in USD, in the order
\* asked, a stablecoin missing from the response at price 1.
C28_BatchFallsBackPerStablecoin ==
  (gecko.op = "fetchMultiplePrices" /\ gecko.pc = "done") =>
    LET usd == gecko.currency \in {"USD", "usd"}
        pegged == IF usd THEN PeggedOf(gecko.symbols) ELSE <<>>
        answered == AnsweredOf(gecko.symbols, gecko.currency, gecko.response)
    IN  IF ~gecko.response.ok
        THEN IF pegged = <<>>
             THEN gecko.outcome = "rejected"
             ELSE /\ gecko.outcome = "ok"
                  /\ gecko.result =
                       [i \in DOMAIN pegged |->
                          [symbol |-> ToUpperCase(pegged[i]), price |-> 1]]
        ELSE /\ gecko.outcome = "ok"
             /\ Len(gecko.result) = Len(answered)
             /\ \A i \in DOMAIN answered :
                  /\ gecko.result[i].symbol = ToUpperCase(answered[i])
                  /\ GetCoingeckoId(answered[i]) \notin gecko.response.ids
                       => gecko.result[i].price = 1

\* ------------------------------------------- claims: keys of the limiter
\* The step changes what the limiter stores as the retry counter of key.
CounterChanges(key) ==
  \/ (key \in DOMAIN retryCount) # (key \in DOMAIN retryCount')
  \/ /\ key \in DOMAIN retryCount
     /\ key \in DOMAIN retryCount'
     /\ retryCount'[key] # retryCount[key]
\* Call c takes the step.
Acts(c) == calls'[c] # calls[c]

\* C29: the retry counter of a key is created, changed or removed only in a
\* step of a call made with that key; and a call that is made while the
\* window holds maxRequests recent timestamps, whichever keys they were
\* recorded for, does not invoke its operation: it records no timestamp and
\* begins a backoff wait for the saturated window, or fails as rate limited.
C29_SharedWindowOwnCounters ==
  [][/\ \A key \in Keys :
          CounterChanges(key) => \E c \in CallIds : Acts(c) /\ calls'[c].key = key
     /\ \A c \in CallIds :
          (calls[c].pc = "idle" /\ Acts(c) /\ WindowSaturated) =>
            /\ calls'[c].invocations = 0
            /\ Len(requests') <= Len(requests)
            /\ \/ calls'[c].pc = "sleep" /\ calls'[c].why = "sat"
               \/ calls'[c].pc = "done" /\ calls'[c].outcome = "rateLimit"]_vars

\* A call on k2 waits a second time for the window, which a call on k1 has
\* filled: k2 has a retry counter and k1 has none.
C29_Witness ==
  \E c, d \in CallIds :
    /\ calls[c].key = "k2"
    /\ calls[c].pc = "sleep"
    /\ calls[c].why = "sat"
    /\ calls[c].invocations = 0
    /\ calls[d].key = "k1"
    /\ calls[d].invocations >= 1
    /\ \A e \in CallIds : calls[e].invocations >= 1 => calls[e].key = "k1"
    /\ WindowSaturated
    /\ "k2" \in DOMAIN retryCount
    /\ "k1" \notin DOMAIN retryCount

\* Call c ends in this step with one of the outcomes.
Ends(c, outcomes) ==
  /\ calls[c].pc # "done"
  /\ calls'[c].pc = "done"
  /\ calls'[c].outcome \in outcomes

\* C30: once a call for a key succeeds or fails with its retries exhausted,
\* the key's retry counter is removed: after the step in which the call
\* ends so, the limiter stores no retry counter for the call's key.
C30_CounterRemovedOnceCallEnds ==
  [][\A c \in CallIds :
       Ends(c, {"ok", "rateLimit", "throttled"})
         => calls'[c].key \notin DOMAIN retryCount']_vars

\* ------------------------------------------- claims: bounds of the result
\* The least and the greatest of the prices.
LeastOf(prices) == CHOOSE p \in {prices[i] : i \in DOMAIN prices} :
                     \A i \in DOMAIN prices : p <= prices[i]
GreatestOf(prices) == CHOOSE p \in {prices[i] : i \in DOMAIN prices} :
                        \A i \in DOMAIN prices : p >= prices[i]

\* C36: for a non-empty list of positive quotes the reduction returns a
\* price that is no less than the least quote, no greater than the greatest,
\* and within 10% of the median (the element of rank floor(n / 2)).
C36_ResultWithinBandOfMedian ==
  (cResult.kind # "pending" /\ cPrices # <<>> /\ AllPositive(cPrices)) =>
    /\ cResult.kind = "value"
    /\ cResult.price.den > 0
    /\ LeastOf(cPrices) * cResult.price.den <= cResult.price.num
    /\ cResult.price.num <= GreatestOf(cPrices) * cResult.price.den
    /\ \A i \in DOMAIN cPrices :
         IsUpperMedian(cPrices, cPrices[i]) =>
           10 * Abs(cResult.price.num - cPrices[i] * cResult.price.den)
             <= cPrices[i] * cResult.price.den

\* Three quotes, one of them outside the band, were reduced to the mean of
\* the other two.
C36_Witness ==
  /\ Len(cPrices) = 3
  /\ cResult.kind = "value"
  /\ cResult.branch = "mean"
  /\ \E i \in DOMAIN cPrices :
       /\ IsUpperMedian(cPrices, cPrices[i])
       /\ Cardinality(InBand(cPrices, cPrices[i])) = 2

\* ------------------------------------------ claims: errors of the operation
\* C32: when the operation of a call rejects with an error that is not a
\* throttling rejection, the call ends in that step with that error: it
\* begins no backoff wait, its operation is not invoked again, and the
\* window (with the timestamp the invocation recorded) and the retry
\* counters are left as they were.  A call that was never in a backoff wait
\* and ended so invoked its operation exactly once.
C32_OtherErrorsAreRethrown ==
  /\ [][\A c \in CallIds :
          (calls[c].pc = "running" /\ Acts(c) /\ calls'[c].threw = "error") =>
            /\ calls'[c].pc = "done"
            /\ calls'[c].outcome = "error"
            /\ calls'[c].invocations = calls[c].invocations
            /\ calls'[c].satWaits = calls[c].satWaits
            /\ requests' = requests
            /\ requests # <<>>
            /\ retryCount' = retryCount]_vars
  /\ [](\A c \in CallIds :
          (calls[c].pc = "done" /\ calls[c].outcome = "error")
            => calls[c].invocations >= 1)

\* A call whose operation was invoked once, with the window then full, has
\* ended with the operation's error.
C32_Witness ==
  \E c \in CallIds :
    /\ calls[c].pc = "done"
    /\ calls[c].outcome = "error"
    /\ calls[c].invocations = 1
    /\ calls[c].satWaits = 0
    /\ WindowSaturated

\* ---------------------------------------------------- claims: reset()
\* A call is made in place c in this step.
Enters(c) == calls[c].pc \in {"idle", "done"} /\ Acts(c)

\* C31: reset() leaves the window and the retry counters empty; the call
\* made next, with nothing recorded since, invokes its operation in the step
\* that makes it; and a call that was in a backoff wait when reset() ran
\* goes on as a call that has not waited before: when its wait is over it
\* invokes its operation, or waits again with the counter 1 stored for its
\* key, and it does not fail as rate limited.
C31_ResetStartsAfresh ==
  [][/\ (\E c \in CallIds : ~calls[c].resetSeen /\ calls'[c].resetSeen)
          => requests' = <<>> /\ retryCount' = <<>>
     /\ \A c \in CallIds :
          /\ (Enters(c) /\ requests = <<>>) => calls'[c].pc = "running"
          /\ (calls[c].pc = "sleep" /\ calls[c].resetSeen /\ Acts(c)) =>
               \/ calls'[c].pc = "running"
               \/ /\ calls'[c].pc = "sleep"
                  /\ retryCount'[calls[c].key] = 1]_vars

\* -------------------------------------- claims: calls that share a counter
\* C38 as stated: a call that fails as rate limited has itself waited
\* maxRetries times, and no call waits more often before its operation is
\* invoked.
C38_EachCallWaitsMaxRetries ==
  \A c \in CallIds :
    calls[c].invocations = 0 =>
      /\ calls[c].satWaits <= opts.maxRetries
      /\ (calls[c].pc = "done" /\ calls[c].outcome = "rateLimit")
           => calls[c].satWaits = opts.maxRetries

\* C38 amended: before its operation is invoked a call waits at most
\* maxRetries times; a call that fails as rate limited with fewer waits
\* found, when it was made, a counter stored for its key by another call for
\* that key, and has made up the difference between that counter and
\* maxRetries at least.
C38_WaitsSharedAmongCallsOfAKey ==
  \A c \in CallIds :
    calls[c].invocations = 0 =>
      /\ calls[c].satWaits <= opts.maxRetries
      /\ (/\ calls[c].pc = "done"
          /\ calls[c].outcome = "rateLimit"
          /\ calls[c].satWaits < opts.maxRetries) =>
           /\ calls[c].r0 > 0
           /\ calls[c].satWaits + calls[c].r0 >= opts.maxRetries
           /\ \E d \in CallIds \ {c} :
                /\ calls[d].key = calls[c].key
                /\ calls[d].pc # "idle"
                /\ calls[d].satWaits >= 1

\* A call failed as rate limited after fewer than maxRetries waits of its
\* own, having found the counter another call for its key had stored.
C38_Witness ==
  \E c, d \in CallIds :
    /\ c # d
    /\ calls[c].key = calls[d].key
    /\ calls[c].pc = "done"
    /\ calls[c].outcome = "rateLimit"
    /\ calls[c].invocations = 0
    /\ calls[c].r0 > 0
    /\ calls[c].satWaits < opts.maxRetries
    /\ calls[d].satWaits >= 1

\* ------------------------------------- claims: the life of a cache entry
\* The entry has outlived its ttl.
Expired(entry) == entry # <<>> /\ clock - entry[1].timestamp >= entry[1].ttl

\* C34 as stated: a get leaves the entry it reads as it is or removes it,
\* and an expired entry is never replaced where it stands: the only step
\* that changes it removes it, so that a new entry of the key is inserted
\* after the removal of the old one.
C34_ExpiredRemovedThenReinserted ==
  [][\A key \in CacheKeys :
       LET before == BackendEntry(key)
           after == BackendEntry(key)'
       IN  /\ Settles("get", key) => after \in {before, <<>>}
           /\ (Expired(before) /\ after # before) => after = <<>>]_vars

\* C34 amended: no step changes the time or the ttl of an entry: under a
\* key the backend holds after a step the entry it held before, or none, or
\* the entry of a set of that key settling in this step, stamped now; a get
\* changes nothing or removes the entry; a get returns a value only of an
\* entry younger than its own ttl by its own time.  An expired entry is
\* thus served again only as the new entry of a later set, which takes the
\* place of the old one whether a get had removed it or not.
C34_EntriesReplacedNeverExtended ==
  [][\A key \in CacheKeys :
       LET before == BackendEntry(key)
           after == BackendEntry(key)'
       IN  /\ Settles("get", key) => after \in {before, <<>>}
           /\ (Settles("get", key) /\ returned'.value # <<>>) =>
                 /\ ~Expired(before)
                 /\ after = before
           /\ after \notin {before, <<>>} =>
                 /\ Settles("set", key)
                 /\ returned'.how = "stored"
                 /\ after[1].timestamp = clock
                 /\ after[1].key = key]_vars

\* The third operation of a run on one key is a get served with an entry
\* that a set made at time 2 or later stored, when an entry stored at the
\* start has expired.
C34_Witness ==
  /\ host.keys = 1
  /\ returned.op = "get"
  /\ returned.how = "hit"
  /\ returned.turn >= 3
  /\ BackendEntry(returned.key) # <<>>
  /\ BackendEntry(returned.key)[1].timestamp >= options.defaultTTL

\* ------------------------------------ claims: the keys of the aggregator cache
\* C37: a fetchPrice or fetchMultiplePrices made after a fetchMultiplePrices
\* has returned a quote for a symbol it was asked for, whose first symbol is
\* that symbol in the same spelling and which is made before the quote is as
\* old as the ttl, finds the quote in its cache read (and so queries no
\* provider).
C37_RepeatServedFromCache ==
  [][\A c \in CallIds :
       LET rec == calls[c]
           after == calls'[c]
       IN  (/\ rec.kind = "batch"
            /\ rec.pc = "done"
            /\ rec.outcome = "ok"
            /\ after.pc \in {"cacheRead", "batchRead"}
            /\ \E j \in DOMAIN rec.symbols : rec.symbols[j] = after.symbols[1]
            /\ \E i \in DOMAIN rec.result :
                 /\ rec.result[i].symbol = ToUpperCase(after.symbols[1])
                 /\ clock' - rec.result[i].timestamp < agg.ttl) =>
             after.got # <<>>]_vars

\* ------------------------------------------ claims: the facade cache timeout
\* C40: a getPrice is served from the cache exactly when its key has an
\* entry whose age is below the timeout in force at the time of the call,
\* whatever the timeout was when the entry was stored; neither a getPrice
\* that finds its entry expired nor setCacheTimeout removes or changes an
\* entry, and setCacheTimeout does nothing but set the timeout.
C40_TimeoutInForceAtRead ==
  [][/\ \A c \in OpIds :
          LET now == ops'[c]
              key == GetCacheKey(now.from, now.to)
              cached == FacadeGet(facadeCache, key)
          IN  Begins(c, "getPrice") =>
                /\ UNCHANGED <<facadeCache, cacheTimeout>>
                /\ (now.pc = "done" /\ now.queries = 0)
                     <=> (cached # <<>> /\ clock - cached[1].timestamp < cacheTimeout)
                /\ now.pc = "done" => now.result[1].price = cached[1].price
                /\ now.pc # "done" => now.pc = "fetching" /\ now.queries = 1
     /\ cacheTimeout' # cacheTimeout =>
          /\ cacheTimeout' \in CacheTimeouts
          /\ UNCHANGED <<facadeCache, ops, clock>>]_vars

\* A getPrice was served from an entry as old as the timeout the valuator
\* was constructed with, under a longer timeout set since.
C40_Witness ==
  \E c \in OpIds :
    LET key == GetCacheKey(ops[c].from, ops[c].to)
    IN  /\ ops[c].kind = "getPrice"
        /\ ops[c].pc = "done"
        /\ ops[c].outcome = "ok"
        /\ ops[c].queries = 0
        /\ key \in DOMAIN facadeCache
        /\ clock - facadeCache[key].timestamp >= 2
        /\ cacheTimeout > 2
        /\ ops[c].result[1].price = facadeCache[key].price

\* ----------------------------------------------- claims: the two cache layers
\* The valuator over the aggregator: the caller's getPrice calls reach the
\* aggregator as fetchPrice calls, one after the other, and the caller
\* clears the valuator's cache and sets its timeout in between.
LayersInit ==
  /\ AggInit
  /\ opts.maxRequests = 1
  /\ agg.thresholdQ = DefaultThresholdQ

\* getCachedOrFetchPrice after provider.fetchPrice has resolved for a key
\* the valuator holds no entry of: the price is stored with the time of the
\* store.
FacadeStores(c) ==
  LET rec == calls[c]
      key == GetCacheKey(rec.symbols[1], "usd")
  IN  /\ rec.kind = "price"
      /\ rec.pc = "done"
      /\ rec.outcome = "ok"
      /\ key \notin DOMAIN facadeCache
      /\ facadeCache' = FacadeSet(facadeCache, key, rec.result[1].price, clock)
      /\ clearedKeys' = clearedKeys \ {key}
      /\ UNCHANGED <<cacheTimeout, ops>>
      /\ UNCHANGED <<consVars, limVars, aggVars, cacheVars, geckoVars>>

LayersNext ==
  \/ AggTick
  \/ \E c \in CallIds, symbol \in Symbols, delay \in CallerDelays :
       FetchPrice(c, symbol, delay)
  \/ \E c \in CallIds : FetchPriceCacheRead(c)
  \/ \E c \in CallIds, reply \in PriceReplies : ProviderReplies(c, reply)
  \/ \E c \in CallIds : Wake(c)
  \/ \E c \in CallIds : FacadeStores(c)
  \/ ClearCache
  \/ \E milliseconds \in CacheTimeouts : SetCacheTimeout(milliseconds)

SpecLayers == LayersInit /\ [][LayersNext]_vars

\* C35: a step of the valuator's clearCache (the keys it removed grow)
\* empties the valuator's cache, a step of setCacheTimeout changes its
\* timeout, and both leave the aggregator as it is: its cache entries, the
\* limiter's window and retry counters, and its fetches in flight.
C35_FacadeOpsLeaveAggregator ==
  [][/\ (clearedKeys' # clearedKeys /\ clearedKeys \subseteq clearedKeys') =>
          /\ facadeCache' = <<>>
          /\ UNCHANGED <<cache, requests, retryCount, calls, started, fetches, agg, opts>>
     /\ cacheTimeout' # cacheTimeout =>
          /\ UNCHANGED facadeCache
          /\ UNCHANGED <<cache, requests, retryCount, calls, started, fetches, agg, opts>>]_vars

\* The valuator's cache has been cleared while the aggregator holds a cached
\* quote of the key, a window slot and a retry counter.
C35_Witness ==
  /\ clearedKeys # {}
  /\ facadeCache = <<>>
  /\ cacheTimeout # 2
  /\ cache # <<>>
  /\ requests # <<>>
  /\ retryCount # <<>>

\* ------------------------------------------- claims: overlapping fetches
\* The aggregator whose caller does not await its fetches: fetchPrice calls
\* for one symbol overlap, and clearCache is called while a round is in
\* flight.
OverlapInit ==
  /\ AggInit
  /\ agg.thresholdQ = DefaultThresholdQ

\* The caller calls fetchPrice(symbol) whatever other fetches are in flight:
\* the cache is read under the key of the symbol as given.  Calls are
\* numbered in the order in which they are made.
FetchPriceOverlapping(c, symbol) ==
  LET read == CacheGet(cache, CacheKey(symbol), clock)
  IN  /\ calls[c].pc = "idle"
      /\ \A d \in CallIds : d < c => calls[d].pc # "idle"
      /\ cache' = read.store
      /\ fetches' = fetches + 1
      /\ calls' = [calls EXCEPT ![c] =
           [IdleCall EXCEPT !.pc = "cacheRead", !.kind = "price", !.symbols = <<symbol>>,
                     !.key = CacheKey(symbol), !.got = read.hit]]
      /\ UNCHANGED <<clock, started, opts, requests, retryCount, agg>>
      /\ UNCHANGED <<consVars, cacheVars, valVars, geckoVars>>

\* clearCache() on the in-memory backend, called while a round is in
\* flight: the Map is emptied.
AggregatorClearCache ==
  /\ \E c \in CallIds : calls[c].pc = "running"
  /\ \A c \in CallIds : ~calls[c].clearSeen
  /\ cache' = <<>>
  /\ calls' = [c \in CallIds |->
       IF calls[c].pc = "running" THEN [calls[c] EXCEPT !.clearSeen = TRUE]
       ELSE calls[c]]
  /\ UNCHANGED <<clock, started, opts, requests, retryCount, agg, fetches>>
  /\ UNCHANGED <<consVars, cacheVars, valVars, geckoVars>>

\* What a provider does in these runs: it quotes the lower price or rejects.
OverlapReplies ==
  {reply \in PriceReplies : reply.kind \in {"quote", "fail"} /\ reply.price < 110}

OverlapNext ==
  \/ AggTick
  \/ \E c \in CallIds : FetchPriceOverlapping(c, "eth")
  \/ \E c \in CallIds : FetchPriceCacheRead(c)
  \/ \E c \in CallIds, reply \in OverlapReplies : ProviderReplies(c, reply)
  \/ \E c \in CallIds : Wake(c)
  \/ AggregatorClearCache

SpecOverlap == OverlapInit /\ [][OverlapNext]_vars

\* The requests of the window that are younger than windowMs.
SlotsTaken ==
  Cardinality({i \in DOMAIN requests : clock - requests[i] < opts.windowMs})

\* C33: a fetchPrice made while another for the same key is in flight reads
\* the cache itself and misses when the key has no entry; after its miss it
\* enters the limiter itself: with room in the window it records a slot of
\* its own and begins a provider round of its own, else it waits or fails
\* as rate limited; and a provider's reply goes to the round of one call
\* and leaves every other call as it is.
C33_OverlappingCallsNotCoalesced ==
  [][\A c \in CallIds :
       LET rec == calls[c]
           after == calls'[c]
           others == \A d \in CallIds \ {c} : calls'[d] = calls[d]
       IN  /\ (rec.pc = "idle" /\ after.pc = "cacheRead") =>
                /\ others
                /\ Lookup(cache, after.key) = <<>> => after.got = <<>>
           /\ (rec.pc = "cacheRead" /\ rec.got = <<>> /\ after # rec) =>
                /\ others
                /\ IF SlotsTaken < opts.maxRequests
                   THEN /\ after.pc = "running"
                        /\ after.invocations = 1
                        /\ after.replies = <<>>
                        /\ Len(requests') = SlotsTaken + 1
                        /\ requests'[Len(requests')] = clock
                   ELSE /\ after.pc \in {"sleep", "done"}
                        /\ after.invocations = 0
           /\ (rec.pc = "running" /\ Len(after.replies) > Len(rec.replies)) =>
                /\ others
                /\ Len(after.replies) = Len(rec.replies) + 1]_vars

\* Two fetchPrice calls for one key are in their provider rounds at once,
\* each after a cache miss and an invocation of its own, with two slots of
\* the window taken.
C33_Witness ==
  \E c, d \in CallIds :
    /\ c # d
    /\ calls[c].key = calls[d].key
    /\ calls[c].kind = "price" /\ calls[d].kind = "price"
    /\ calls[c].pc = "running" /\ calls[d].pc = "running"
    /\ calls[c].invocations = 1 /\ calls[d].invocations = 1
    /\ calls[c].replies # <<>> /\ calls[d].replies # <<>>
    /\ Len(requests) = 2

\* C39: a fetchPrice that is served from the cache is not served the quote
\* of a round that was in flight when clearCache ran: no call returns, from
\* its cache read, the quote that such a round computed and cached.
C39_NothingFromBeforeTheClear ==
  \A c, d \in CallIds :
    (/\ c # d
     /\ calls[d].kind = "price"
     /\ calls[d].pc = "done"
     /\ calls[d].clearSeen
     /\ calls[d].wrote
     /\ calls[c].kind = "price"
     /\ calls[c].pc = "done"
     /\ calls[c].invocations = 0
     /\ calls[c].key = calls[d].key) =>
       calls[c].result # calls[d].result

====
